---- MODULE Spec2Model ----
(***************************************************************************)
(* Message bridge: the queued message handler (per-conversation promise    *)
(* chain, session get/create, prompt, response polling), the processed-id  *)
(* dedup cache of the adapters, the stream aggregation buffer of the       *)
(* global event listener, the token handling and the poll loops of the     *)
(* Teams client, and the bootstraps of the plugin entries.                 *)
(*                                                                         *)
(* JavaScript runs the code between two awaits atomically, so every action *)
(* below is the code from one await to the next: the state an action       *)
(* leaves is a state in which the task is suspended in the await named by  *)
(* its pc.                                                                 *)
(***************************************************************************)
EXTENDS Integers, Sequences, FiniteSets, TLC

\* ------------------------------------------------------------------ bounds
MaxMsgs == 3            \* inbound messages handed to the handler
MaxSessions == 2        \* backend session ids that can exist
MaxPending == 2         \* polls the backend answers with "not completed yet"
MaxDeliveries == 4      \* messages an adapter receives (redeliveries included)
MaxLoops == 2           \* connect() runs of the listener alive at once
MaxStreamMsgs == 2      \* inbound messages handed to the event-stream handler
MaxEvents == 4          \* backend events the listener consumes while it is not stopped
RestartEvents == 2      \* backend events the listener consumes around a stop
MaxStops == 1           \* stopGlobalEventListener calls
MaxStarts == 2          \* startGlobalEventListener calls
MaxTicks == 1           \* clock advances
MaxFails == 2           \* times the event stream fails or ends
MaxPlatformIds == 2     \* platform message ids sends can return
StartTime == 1000       \* Date.now() at the start, in ms
MaxThrottleEvents == 3  \* fragments the listener consumes in a throttle run
MaxThrottleTicks == 2   \* clock advances in a throttle run
MaxBackoffFails == 13   \* failures of the event stream in a run of reconnects
MaxClients == 2         \* TeamsClient instances constructed in the process
MaxPollers == 2         \* runs of startPolling
MaxChatMsgs == 3        \* messages in the Teams chat
MaxRestarts == 1        \* startPolling calls on a client that exists
MaxTeamsStops == 1      \* stop() calls on Teams clients
MaxTeamsFails == 1      \* Graph requests of the poll loops that fail
MaxRounds == 2          \* poll iterations begun after a sleep
MaxBoots == 3           \* bootstrap invocations in the process
MaxBootFails == 1       \* failures of the event stream while the plugins boot
MaxRequests == 3        \* outbound requests of the Teams adapter in flight at once
MaxCalls == 3           \* outbound requests the Teams adapter starts
MaxTokenTicks == 1      \* clock advances of the Teams adapter

\* ------------------------------------------------------- program constants
maxAttempts == 60       \* polling attempts of the response loop
CacheCeiling == 2000    \* processedMessageIds.size > 2000
UPDATE_INTERVAL == 800  \* throttle interval of the stream flush, in ms
BackoffStep == 5000     \* reconnect delay per retry, in ms
BackoffCap == 60000     \* largest reconnect delay, in ms
TickSteps == {800, 801} \* clock advances, in ms

Chats == {"A", "B"}
Senders == {"u1"}
SessIds == 1..MaxSessions
NoSession == 0          \* sessionMap.get(chatId) === undefined
NoTask == 0             \* chatQueues.get(chatId) === undefined

VARIABLES
  tasks,            \* the currentTask promises, in the order they were created
  chatQueues,       \* Map chatId -> last task created for it
  sessionMap,       \* Map chatId -> sessionId
  sessionOwnerMap,  \* Map sessionId -> senderId
  backendTitle,     \* backend: title (conversation) of each existing session
  nextSession,      \* backend: next session id createSession hands out
  pongs,            \* "Pong!" replies sent per conversation
  toArrive,         \* environment: messages the adapters will still hand over
  pendingLeft,      \* environment: "not completed yet" answers the backend will still give
  createCalls,      \* history: createSession calls issued per conversation
  createOk,         \* history: createSession calls that returned a session id
  promptLog         \* history: per conversation, the sessions prompted, in order

handlerVars == <<tasks, chatQueues, sessionMap, sessionOwnerMap, backendTitle,
                 nextSession, pongs, toArrive, pendingLeft, createCalls, createOk, promptLog>>

VARIABLES
  adapterKind,          \* which adapter owns the processed-id set modelled
  processedMessageIds,  \* the Set, as the sequence of its ids in insertion order
  dedupLog,             \* history: <<id, result>> of the last two isMessageProcessed calls
  onMessageCalls,       \* history: onMessage calls per id since it entered the set
  deliveriesLeft        \* environment: deliveries still to come

dedupVars == <<adapterKind, processedMessageIds, dedupLog, onMessageCalls,
               deliveriesLeft>>

VARIABLES
  sessionCache,         \* Map chatId -> sessionId of the event-stream handler
  sessionToFeishuMap,   \* routes: Map sessionId -> chatId
  messageBuffers,       \* Map backend message id -> MessageBuffer
  isListenerStarted,    \* listener lock
  shouldStopListener,   \* listener stop flag
  loops,                \* the connect() runs of the listener
  streamTasks,          \* invocations of the event-stream handler in flight
  streamNextSession,    \* backend: next session id createSession hands out
  nextPlatformId,       \* platform: next message id a send returns
  now,                  \* Date.now()
  budget,               \* environment: what can still happen
  lastLen,              \* history: content length after the last fragment update of each id
  lastFragment,         \* history: the fragment handled last
  idsReturned,          \* history: sends per message id that returned a platform id
  goneSessions,         \* history: sessions reported by session.deleted / session.error
  inFlight              \* history: outbound calls of each connect() run not yet returned

streamVars == <<sessionCache, sessionToFeishuMap, messageBuffers, isListenerStarted,
                shouldStopListener, loops, streamTasks, streamNextSession,
                nextPlatformId, now, budget, lastLen, lastFragment, idsReturned,
                goneSessions, inFlight>>

VARIABLES
  config,          \* this.config: access_token, refresh_token, client_id
  accessToken,     \* this.accessToken
  refreshToken,    \* this.refreshToken
  tokenExpiresAt,  \* this.tokenExpiresAt, in ms
  tokenNow,        \* Date.now() of the Teams adapter
  requests,        \* outbound requests of the Teams adapter in flight
  polling,         \* this.polling
  pollPc,          \* where the poll loop of startPolling is
  refreshCalls,    \* history: POSTs issued to the token endpoint
  issued,          \* provider: token responses given
  tokenBudget      \* environment: requests and clock advances still to come

tokenVars == <<config, accessToken, refreshToken, tokenExpiresAt, tokenNow, requests,
               polling, pollPc, refreshCalls, issued, tokenBudget>>

VARIABLES
  boots,                  \* the bootstrap() runs of the plugin entries
  bridgeMux,              \* globalState.__bridge_mux
  muxCreated,             \* AdapterMux instances constructed so far
  registerCalls,          \* history: <<registry instance, key>> of each mux.register call
  bridgeListenerStarted,  \* globalState.__bridge_listener_started
  feishuListenerStarted,  \* globalState.__feishu_plugin_listener_started
  feishuInstance,         \* globalState.__feishu_client_instance is set
  startCalls              \* history: calls of startGlobalEventListener

bootVars == <<boots, bridgeMux, muxCreated, registerCalls, bridgeListenerStarted,
              feishuListenerStarted, feishuInstance, startCalls>>

VARIABLES
  clientPolling,   \* this.polling of each TeamsClient
  pollers,         \* the runs of startPolling, each with its lastSeenMap entry of the chat
  chatLog,         \* backend: number of messages in the chat
  teamsProcessed,  \* processedMessageIds of the Teams client module, in insertion order
  onMessageLog,    \* history: <<run, message>> of each onMessage call
  teamsRegistry,   \* the client of the adapter registered under the Teams key
  nextClient,      \* the next TeamsClient a bootstrap constructs
  teamsBoot,       \* where the bootstrap that constructed each client stands
  teamsBudget      \* environment: what can still happen

teamsVars == <<clientPolling, pollers, chatLog, teamsProcessed, onMessageLog,
               teamsRegistry, nextClient, teamsBoot, teamsBudget>>

vars == <<handlerVars, dedupVars, streamVars, tokenVars, bootVars, teamsVars>>

\* a step of the handler leaves the other components alone
HandlerOnly == UNCHANGED <<dedupVars, streamVars, tokenVars, bootVars, teamsVars>>
\* so does a step of an adapter's dedup check
DedupOnly == UNCHANGED <<handlerVars, streamVars, tokenVars, bootVars, teamsVars>>
\* and a step of the event-stream listener or its handler
StreamOnly == UNCHANGED <<handlerVars, dedupVars, tokenVars, bootVars, teamsVars>>
\* and a step of the Teams client
TokenOnly == UNCHANGED <<handlerVars, dedupVars, streamVars, bootVars, teamsVars>>
\* and a step of a plugin bootstrap, which can start the listener
BootOnly == UNCHANGED <<handlerVars, dedupVars, tokenVars, teamsVars>>
\* and a step of a Teams poll loop or of its callers
TeamsOnly == UNCHANGED <<handlerVars, dedupVars, streamVars, tokenVars, bootVars>>

TaskIds == 1..Len(tasks)
Settled(t) == tasks[t].pc \in {"resolved", "rejected"}
InBody(t) == tasks[t].pc \notin {"waiting", "resolved", "rejected"}

\* ------------------------------------------------------- promise chain
\* const previousTask = chatQueues.get(chatId) || Promise.resolve()
PreviousTask(c) == chatQueues[c]

\* state of a promise as seen by a task that awaits it
PromiseState(p) == IF p = NoTask THEN "resolved"
                   ELSE IF Settled(p) THEN tasks[p].pc ELSE "pending"

\* a chain awaiting the previous task without the catch: a rejection of the
\* previous task is thrown into the awaiting task
AwaitPreviousNoCatch(p) ==
  CASE PromiseState(p) = "pending" -> "wait"
    [] PromiseState(p) = "resolved" -> "go"
    [] PromiseState(p) = "rejected" -> "throw"

\* a chain that does not wait at all
AwaitPreviousNoWait(p) == "go"

\* await previousTask.catch(() => {}): continues once previousTask has
\* settled, whichever way
AwaitPrevious(p) ==
  CASE PromiseState(p) = "pending" -> "wait"
    [] PromiseState(p) \in {"resolved", "rejected"} -> "go"

\* a queue that keeps the first task of a conversation as its tail
EnqueueTaskKeepFirst(c, t) ==
  IF chatQueues[c] = NoTask THEN [chatQueues EXCEPT ![c] = t] ELSE chatQueues

\* a single queue shared by all conversations
EnqueueTaskShared(c, t) == [d \in Chats |-> t]

\* chatQueues.set(chatId, currentTask)
EnqueueTask(c, t) == [chatQueues EXCEPT ![c] = t]

NewTask(c, s) ==
  [chat |-> c, sender |-> s, prev |-> PreviousTask(c), pc |-> "waiting",
   sessionId |-> NoSession, reactionId |-> FALSE, attempts |-> 0,
   failed |-> FALSE, sent |-> <<>>]

Upd(t, r) == tasks' = [tasks EXCEPT ![t] = r]

\* ------------------------------------------------------- handler entry
\* message texts, as sequences of characters
Ping == <<"p", "i", "n", "g">>
Texts == {Ping, <<" ", "P", "i", "n", "G", "\n">>, <<"p", "i", "n", "g", "s">>,
          <<"h", "i">>}

\* String.prototype.trim: white space is removed from both ends
IsSpace(ch) == ch \in {" ", "\t", "\n"}
RECURSIVE TrimStart(_)
TrimStart(q) == IF q # <<>> /\ IsSpace(Head(q)) THEN TrimStart(Tail(q)) ELSE q
RECURSIVE TrimEnd(_)
TrimEnd(q) ==
  IF q # <<>> /\ IsSpace(q[Len(q)]) THEN TrimEnd(SubSeq(q, 1, Len(q) - 1)) ELSE q
Trim(q) == TrimEnd(TrimStart(q))

\* String.prototype.toLowerCase
LowerOf(ch) ==
  CASE ch = "P" -> "p" [] ch = "I" -> "i" [] ch = "N" -> "n" [] ch = "G" -> "g"
    [] ch = "H" -> "h" [] ch = "S" -> "s" [] OTHER -> ch
ToLowerCase(q) == [i \in 1..Len(q) |-> LowerOf(q[i])]

\* text === 'ping', without trim and toLowerCase
IsPingExact(text) == text = Ping

\* text.trim().toLowerCase() === 'ping'
IsPing(text) == ToLowerCase(Trim(text)) = Ping

\* text.trim().toLowerCase() === 'ping': reply and return, no queue
HandlePing(c, text) ==
  /\ IsPing(text)
  /\ toArrive > 0
  /\ toArrive' = toArrive - 1
  /\ pongs' = [pongs EXCEPT ![c] = @ + 1]
  /\ UNCHANGED <<tasks, chatQueues, sessionMap, sessionOwnerMap, backendTitle,
                 nextSession, pendingLeft, createCalls,
                 createOk, promptLog>>

\* any other text: the async task is created (it runs up to its first
\* await, await previousTask.catch), and becomes the tail of the queue
HandleMessage(c, s, text) ==
  /\ ~IsPing(text)
  /\ toArrive > 0
  /\ toArrive' = toArrive - 1
  /\ tasks' = Append(tasks, NewTask(c, s))
  /\ chatQueues' = EnqueueTask(c, Len(tasks) + 1)
  /\ UNCHANGED <<sessionMap, sessionOwnerMap, backendTitle, nextSession, pongs,
                 pendingLeft, createCalls, createOk, promptLog>>

HandlerInit ==
  /\ tasks = <<>>
  /\ chatQueues = [c \in Chats |-> NoTask]
  /\ sessionMap = [c \in Chats |-> NoSession]
  /\ sessionOwnerMap = [s \in SessIds |-> "none"]
  /\ \/ /\ backendTitle = [s \in SessIds |-> "none"]
        /\ nextSession = 1
     \/ /\ backendTitle = [s \in SessIds |-> IF s = 1 THEN "A" ELSE "none"]
        /\ nextSession = 2
  /\ pongs = [c \in Chats |-> 0]
  /\ toArrive = MaxMsgs
  /\ pendingLeft = MaxPending
  /\ createCalls = [c \in Chats |-> 0]
  /\ createOk = [c \in Chats |-> 0]
  /\ promptLog = [c \in Chats |-> <<>>]

\* ------------------------------------------------------- task body
\* entering the catch block: await feishu.sendMessage(chatId, '... Error: ...')
\* (the locals of the try block, attempts among them, are dead from here on)
ToCatchTwice(r) ==
  [r EXCEPT !.pc = "errSend", !.sent = Append(Append(@, "error"), "error"),
            !.attempts = 0]

ToCatch(r) ==
  [r EXCEPT !.pc = "errSend", !.sent = Append(@, "error"), !.attempts = 0]

\* entering the finally block: removeReaction is awaited when a reaction id
\* was recorded, otherwise the task settles
\* a settled task: the promise keeps its outcome, the locals are gone
SettledAs(r, fails) ==
  [r EXCEPT !.pc = IF fails THEN "rejected" ELSE "resolved", !.failed = FALSE,
            !.sessionId = NoSession, !.reactionId = FALSE, !.attempts = 0,
            !.sent = <<>>]

ToFinally(r, fails) ==
  IF r.reactionId
    THEN [r EXCEPT !.pc = "removeReaction", !.failed = fails]
    ELSE SettledAs(r, fails)

\* await api.promptSession({ path: { id: sessionId }, ... })
ToPrompt(r, sid) == [r EXCEPT !.pc = "prompt", !.sessionId = sid]

\* history: the session each prompt of a conversation went to, in order, with
\* Invalidated marking each sessionMap.delete(chatId)
Invalidated == 0
Logged(c, x) == promptLog' = [promptLog EXCEPT ![c] = Append(@, x)]

\* await previousTask.catch(() => {}) returns; the body starts with
\* await feishu.addReaction(messageId, LOADING_EMOJI)
StartBody(t) ==
  /\ tasks[t].pc = "waiting"
  /\ AwaitPrevious(tasks[t].prev) # "wait"
  /\ IF AwaitPrevious(tasks[t].prev) = "go"
       THEN Upd(t, [tasks[t] EXCEPT !.pc = "addReaction"])
       ELSE Upd(t, SettledAs(tasks[t], TRUE))
  /\ UNCHANGED <<chatQueues, sessionMap, sessionOwnerMap, backendTitle,
                 nextSession, pongs, toArrive, pendingLeft, createCalls, createOk, promptLog>>

\* addReaction returned (a reaction id, or null) or threw; then
\* sessionMap.get(chatId): bound -> prompt, unbound -> getSessionList
AfterAddReaction(t, out) ==
  /\ tasks[t].pc = "addReaction"
  /\ LET r == [tasks[t] EXCEPT !.reactionId = (out = "id")]
         sid == sessionMap[r.chat]
     IN  CASE out = "throw" ->
                /\ Upd(t, ToCatch(tasks[t]))
                /\ UNCHANGED <<sessionOwnerMap, promptLog>>
           [] out # "throw" /\ sid # NoSession ->
                /\ sessionOwnerMap' = [sessionOwnerMap EXCEPT ![sid] = r.sender]
                /\ Upd(t, ToPrompt(r, sid))
                /\ Logged(r.chat, sid)
           [] out # "throw" /\ sid = NoSession ->
                /\ Upd(t, [r EXCEPT !.pc = "list"])
                /\ UNCHANGED <<sessionOwnerMap, promptLog>>
  /\ UNCHANGED <<chatQueues, sessionMap, backendTitle, nextSession, pongs,
                 toArrive, pendingLeft, createCalls, createOk>>

\* sessions.find(s => s.title === `[Feishu] ${chatId}`) over what the
\* backend listed (a failed or truncated listing finds nothing)
TitleMatches(c) == {s \in SessIds : backendTitle[s] = c}

\* getSessionList returned: a session with the conversation's title is bound,
\* otherwise createSession is called
AfterList(t, found) ==
  /\ tasks[t].pc = "list"
  /\ found \in TitleMatches(tasks[t].chat) \cup {NoSession}
  /\ IF found # NoSession
       THEN /\ sessionMap' = [sessionMap EXCEPT ![tasks[t].chat] = found]
            /\ sessionOwnerMap' = [sessionOwnerMap EXCEPT ![found] = tasks[t].sender]
            /\ Upd(t, ToPrompt(tasks[t], found))
            /\ Logged(tasks[t].chat, found)
            /\ UNCHANGED createCalls
       ELSE /\ Upd(t, [tasks[t] EXCEPT !.pc = "create"])
            /\ createCalls' = [createCalls EXCEPT ![tasks[t].chat] = @ + 1]
            /\ UNCHANGED <<sessionMap, sessionOwnerMap, promptLog>>
  /\ UNCHANGED <<chatQueues, backendTitle, nextSession, pongs, toArrive,
                 pendingLeft, createOk>>

\* createSession returned a fresh session id: bind it and prompt
AfterCreateOk(t) ==
  /\ tasks[t].pc = "create"
  /\ nextSession <= MaxSessions
  /\ backendTitle' = [backendTitle EXCEPT ![nextSession] = tasks[t].chat]
  /\ nextSession' = nextSession + 1
  /\ sessionMap' = [sessionMap EXCEPT ![tasks[t].chat] = nextSession]
  /\ sessionOwnerMap' = [sessionOwnerMap EXCEPT ![nextSession] = tasks[t].sender]
  /\ Upd(t, ToPrompt(tasks[t], nextSession))
  /\ Logged(tasks[t].chat, nextSession)
  /\ createOk' = [createOk EXCEPT ![tasks[t].chat] = @ + 1]
  /\ UNCHANGED <<chatQueues, pongs, toArrive, pendingLeft, createCalls>>

\* createSession threw, or returned no id ('Failed to acquire Session ID')
AfterCreateFail(t) ==
  /\ tasks[t].pc = "create"
  /\ Upd(t, ToCatch(tasks[t]))
  /\ UNCHANGED <<chatQueues, sessionMap, sessionOwnerMap, backendTitle,
                 nextSession, pongs, toArrive, pendingLeft, createCalls,
                 createOk, promptLog>>

\* sessionMap.delete(chatId)
SessionMapDeleteNothing(c) == sessionMap

SessionMapDelete(c) == [sessionMap EXCEPT ![c] = NoSession]

\* promptSession returned, or threw (a 404 deletes the binding first);
\* on success the polling loop starts: attempts++, sleep, getMessages
AfterPrompt(t, out) ==
  /\ tasks[t].pc = "prompt"
  /\ CASE out = "ok" ->
            /\ Upd(t, [tasks[t] EXCEPT !.pc = "poll", !.attempts = 1])
            /\ UNCHANGED <<sessionMap, promptLog>>
       [] out = "404" ->
            /\ sessionMap' = SessionMapDelete(tasks[t].chat)
            /\ Logged(tasks[t].chat, Invalidated)
            /\ Upd(t, ToCatch(tasks[t]))
       [] out = "error" ->
            /\ Upd(t, ToCatch(tasks[t]))
            /\ UNCHANGED <<sessionMap, promptLog>>
  /\ UNCHANGED <<chatQueues, sessionOwnerMap, backendTitle, nextSession, pongs,
                 toArrive, pendingLeft, createCalls, createOk>>

\* after the loop: if (attempts >= maxAttempts) timeout message, else reply
AfterLoopReply(r) ==
  [r EXCEPT !.pc = "send", !.attempts = 0, !.sent = Append(@, "reply")]

AfterLoop(r) ==
  [r EXCEPT !.pc = "send", !.attempts = 0,
            !.sent = Append(@, IF r.attempts >= maxAttempts THEN "timeout"
                                                              ELSE "reply")]

\* sleep(1500) and getMessages returned: no completed assistant reply yet
\* (continue, or leave the loop when attempts reached maxAttempts), a
\* completed reply (break), or info.error / a thrown error
AfterPoll(t, out) ==
  /\ tasks[t].pc = "poll"
  /\ CASE out = "pending" /\ tasks[t].attempts < maxAttempts ->
            /\ pendingLeft > 0
            /\ pendingLeft' = pendingLeft - 1
            /\ Upd(t, [tasks[t] EXCEPT !.attempts = @ + 1])
       [] out = "pending" /\ tasks[t].attempts >= maxAttempts ->
            /\ Upd(t, AfterLoop(tasks[t]))
            /\ UNCHANGED pendingLeft
       [] out = "completed" ->
            /\ Upd(t, AfterLoop(tasks[t]))
            /\ UNCHANGED pendingLeft
       [] out = "error" ->
            /\ Upd(t, ToCatch(tasks[t]))
            /\ UNCHANGED pendingLeft
  /\ UNCHANGED <<chatQueues, sessionMap, sessionOwnerMap, backendTitle,
                 nextSession, pongs, toArrive, createCalls,
                 createOk, promptLog>>

\* the reply / timeout sendMessage returned, or threw into the catch block
AfterSend(t, out) ==
  /\ tasks[t].pc = "send"
  /\ IF out = "ok" THEN Upd(t, ToFinally(tasks[t], FALSE))
                   ELSE Upd(t, ToCatch(tasks[t]))
  /\ UNCHANGED <<chatQueues, sessionMap, sessionOwnerMap, backendTitle,
                 nextSession, pongs, toArrive, pendingLeft, createCalls,
                 createOk, promptLog>>

\* the sendMessage of the catch block returned (the error is handled), or
\* threw (the task will reject once the finally block is done)
AfterErrSend(t, out) ==
  /\ tasks[t].pc = "errSend"
  /\ IF out = "ok" THEN Upd(t, ToFinally(tasks[t], FALSE))
                   ELSE Upd(t, ToFinally(tasks[t], TRUE))
  /\ UNCHANGED <<chatQueues, sessionMap, sessionOwnerMap, backendTitle,
                 nextSession, pongs, toArrive, pendingLeft, createCalls,
                 createOk, promptLog>>

\* removeReaction of the finally block returned, or threw
AfterRemoveReaction(t, out) ==
  /\ tasks[t].pc = "removeReaction"
  /\ IF out = "ok"
       THEN Upd(t, SettledAs(tasks[t], tasks[t].failed))
       ELSE Upd(t, SettledAs(tasks[t], TRUE))
  /\ UNCHANGED <<chatQueues, sessionMap, sessionOwnerMap, backendTitle,
                 nextSession, pongs, toArrive, pendingLeft, createCalls,
                 createOk, promptLog>>

HandlerNext ==
  \/ \E c \in Chats, text \in Texts : HandlePing(c, text) /\ HandlerOnly
  \/ \E c \in Chats, s \in Senders, text \in Texts :
       HandleMessage(c, s, text) /\ HandlerOnly
  \/ \E t \in TaskIds : StartBody(t) /\ HandlerOnly
  \/ \E t \in TaskIds, out \in {"id", "null", "throw"} :
       AfterAddReaction(t, out) /\ HandlerOnly
  \/ \E t \in TaskIds, found \in SessIds \cup {NoSession} :
       AfterList(t, found) /\ HandlerOnly
  \/ \E t \in TaskIds : AfterCreateOk(t) /\ HandlerOnly
  \/ \E t \in TaskIds : AfterCreateFail(t) /\ HandlerOnly
  \/ \E t \in TaskIds, out \in {"ok", "404", "error"} :
       AfterPrompt(t, out) /\ HandlerOnly
  \/ \E t \in TaskIds, out \in {"pending", "completed", "error"} :
       AfterPoll(t, out) /\ HandlerOnly
  \/ \E t \in TaskIds, out \in {"ok", "throw"} : AfterSend(t, out) /\ HandlerOnly
  \/ \E t \in TaskIds, out \in {"ok", "throw"} : AfterErrSend(t, out) /\ HandlerOnly
  \/ \E t \in TaskIds, out \in {"ok", "throw"} :
       AfterRemoveReaction(t, out) /\ HandlerOnly

\* ------------------------------------------------------- processed-id cache
\* ids are numbered in the order the platform issued them
Range(q) == {q[i] : i \in 1..Len(q)}
SetHas(q, x) == x \in Range(q)
\* Set.prototype.add: a new value goes last, a present one keeps its place
SetAdd(q, x) == IF SetHas(q, x) THEN q ELSE Append(q, x)
SetDelete(q, x) == SelectSeq(q, LAMBDA y : y # x)
\* set.values().next().value: the first value in insertion order
SetFirst(q) == Head(q)
SetLast(q) == q[Len(q)]

\* an overflow that deletes the value just added
EvictedNewest(q) == IF Len(q) > CacheCeiling THEN SetDelete(q, SetLast(q)) ELSE q

\* if (processedMessageIds.size > 2000) delete the first value
Evicted(q) == IF Len(q) > CacheCeiling THEN SetDelete(q, SetFirst(q)) ELSE q

\* a cache that never records the id
ProcessedAfterForgetting(q, x) == q

\* isMessageProcessed(messageId): the set after the call
ProcessedAfter(q, x) == IF SetHas(q, x) THEN q ELSE Evicted(SetAdd(q, x))

\* isMessageProcessed(messageId): the value returned
IsMessageProcessed(q, x) == SetHas(q, x)

\* an adapter that hands every delivery to the handler
HandsOverAlways(dup, pass) == pass

\* the adapter's filter: a duplicate is dropped, then a message without text
\* (Teams: also one not newer than lastSeen, or sent by the bot) is dropped
HandsOver(dup, pass) == ~dup /\ pass

LastTwo(q) == IF Len(q) > 2 THEN Tail(q) ELSE q

\* one delivery of message id x: the dedup check, the filter, onMessage
Deliver(x, pass) ==
  LET dup == IsMessageProcessed(processedMessageIds, x)
      after == ProcessedAfter(processedMessageIds, x)
  IN  /\ deliveriesLeft > 0
      /\ deliveriesLeft' = deliveriesLeft - 1
      /\ processedMessageIds' = after
      /\ dedupLog' = LastTwo(Append(dedupLog, <<x, dup>>))
      /\ onMessageCalls' =
           [y \in DOMAIN onMessageCalls |->
              IF y = x
                THEN (IF SetHas(processedMessageIds, x) THEN onMessageCalls[x] ELSE 0)
                     + (IF HandsOver(dup, pass) THEN 1 ELSE 0)
                ELSE onMessageCalls[y]]
      /\ UNCHANGED adapterKind

\* ids the adapters deliver: the two oldest ids of the set and two new ones
DedupIds == {1, 2, CacheCeiling, CacheCeiling + 1}

\* TeamsClient.startPolling: one message of one poll iteration
TeamsPollMessage(x, pass) == adapterKind = "teams" /\ Deliver(x, pass)

\* FeishuClient: one im.message.receive_v1 event (websocket or webhook)
FeishuReceive(x, pass) == adapterKind = "feishu" /\ Deliver(x, pass)

\* the process has already seen ids 1 .. CacheCeiling - 1
DedupInit ==
  /\ adapterKind \in {"teams", "feishu"}
  /\ processedMessageIds = [i \in 1..(CacheCeiling - 1) |-> i]
  /\ dedupLog = <<>>
  /\ onMessageCalls = [x \in DedupIds |-> 0]
  /\ deliveriesLeft = MaxDeliveries

DedupIdle ==
  /\ adapterKind = "teams"
  /\ processedMessageIds = <<>>
  /\ dedupLog = <<>>
  /\ onMessageCalls = [x \in DedupIds |-> 0]
  /\ deliveriesLeft = 0

DedupNext ==
  \/ \E x \in DedupIds, pass \in BOOLEAN :
       TeamsPollMessage(x, pass) /\ DedupOnly
  \/ \E x \in DedupIds, pass \in BOOLEAN :
       FeishuReceive(x, pass) /\ DedupOnly

HandlerIdle ==
  /\ tasks = <<>>
  /\ chatQueues = [c \in Chats |-> NoTask]
  /\ sessionMap = [c \in Chats |-> NoSession]
  /\ sessionOwnerMap = [s \in SessIds |-> "none"]
  /\ backendTitle = [s \in SessIds |-> "none"]
  /\ nextSession = 1
  /\ pongs = [c \in Chats |-> 0]
  /\ toArrive = 0
  /\ pendingLeft = 0
  /\ createCalls = [c \in Chats |-> 0]
  /\ createOk = [c \in Chats |-> 0]
  /\ promptLog = [c \in Chats |-> <<>>]

\* ------------------------------------------------------- event-stream listener
Msgs == {"m1", "m2"}
\* conversations that use the event-stream handler
StreamChats == {"A"}
LoopIds == 1..MaxLoops
StreamTaskIds == 1..MaxStreamMsgs

\* a JavaScript value that is not a string (delta or part.text missing)
Undefined == "<undefined>"
IsString(x) == x # Undefined

\* buffer.feishuMsgId === null
NoPlatformId == 0

\* messageBuffers.get(msgId) === undefined
NoBuffer == [present |-> FALSE, feishuMsgId |-> NoPlatformId, fullContent |-> "",
             type |-> "text", lastUpdateTime |-> 0, isFinished |-> FALSE]

\* the buffer handleStreamUpdate creates on the first fragment of an id
NewBuffer(ptype) == [present |-> TRUE, feishuMsgId |-> NoPlatformId, fullContent |-> "",
                     type |-> ptype, lastUpdateTime |-> 0, isFinished |-> FALSE]

\* fragments the backend sends: [delta, part.text]
Fragments ==
  { [delta |-> "Hel", text |-> "Hel"],
    [delta |-> "lo ", text |-> "Hello "],
    [delta |-> Undefined, text |-> "Hello world"],
    [delta |-> Undefined, text |-> "Hey"],
    [delta |-> "", text |-> "Hi"],
    [delta |-> Undefined, text |-> Undefined] }

\* the part type the backend sends for each message id
PartTypeOf(m) == IF m = "m1" THEN "text" ELSE "reasoning"

\* message.part.updated events: fragments of routed or unrouted sessions, a
\* tool part, an event without session id, a part without message id
PartEvents ==
  { [sessionID |-> s, messageID |-> m, type |-> PartTypeOf(m), delta |-> f.delta,
     text |-> f.text] : s \in SessIds, m \in Msgs, f \in Fragments }
  \cup { [sessionID |-> 1, messageID |-> "m1", type |-> "tool", delta |-> Undefined,
          text |-> Undefined],
         [sessionID |-> NoSession, messageID |-> "m1", type |-> "text",
          delta |-> "Hel", text |-> "Hel"],
         [sessionID |-> 1, messageID |-> Undefined, type |-> "text",
          delta |-> "Hel", text |-> "Hel"] }

NoFragment == [msg |-> Undefined, delta |-> Undefined, text |-> Undefined]

\* a snapshot that replaces the content whatever its length
AggregatedLastWins(content, delta, text) ==
  IF IsString(delta) /\ Len(delta) > 0 THEN content \o delta
  ELSE IF IsString(text) THEN text
  ELSE content

\* a snapshot that must be strictly longer to replace the content
AggregatedStrict(content, delta, text) ==
  IF IsString(delta) /\ Len(delta) > 0 THEN content \o delta
  ELSE IF IsString(text) THEN (IF Len(text) > Len(content) THEN text ELSE content)
  ELSE content

\* handleStreamUpdate: a non-empty delta is appended, otherwise a string
\* part.text replaces the content if it is at least as long
Aggregated(content, delta, text) ==
  IF IsString(delta) /\ Len(delta) > 0 THEN content \o delta
  ELSE IF IsString(text) THEN (IF Len(text) >= Len(content) THEN text ELSE content)
  ELSE content

\* a flush decision that ignores the throttle
ShouldUpdateAlways(buffer, t) == TRUE

\* !buffer.feishuMsgId || now - buffer.lastUpdateTime > UPDATE_INTERVAL
ShouldUpdate(buffer, t) ==
  buffer.feishuMsgId = NoPlatformId \/ t - buffer.lastUpdateTime > UPDATE_INTERVAL

\* a flush that always sends a new platform message
FlushOpAlwaysSend(buffer) == "send"

\* if (!buffer.feishuMsgId) sendMessage else editMessage
FlushOp(buffer) == IF buffer.feishuMsgId = NoPlatformId THEN "send" ELSE "edit"

\* Math.min(5000 * (retryCount + 1), 60000)
BackoffDelayUncapped(retryCount) == BackoffStep * (retryCount + 1)

\* Math.min(5000 * (retryCount + 1), 60000)
BackoffDelay(retryCount) ==
  IF BackoffStep * (retryCount + 1) < BackoffCap THEN BackoffStep * (retryCount + 1)
  ELSE BackoffCap

NoLoop == [pc |-> "none", retryCount |-> 0, op |-> "none", msg |-> Undefined,
           target |-> NoPlatformId, detached |-> FALSE, delay |-> 0, text |-> ""]
NoStreamTask == [pc |-> "none", chat |-> "A", sessionId |-> NoSession]

FreeLoops == {l \in LoopIds : loops[l].pc = "none"}
FreeStreamTasks == {t \in StreamTaskIds : streamTasks[t].pc = "none"}
Lowest(S) == CHOOSE x \in S : \A y \in S : x <= y

\* what the environment does in a run: a long stream of fragments, a stop
\* followed by a restart, or a connection that keeps failing
LongStream == [events |-> MaxEvents, stops |-> 0, starts |-> 1, ticks |-> MaxTicks,
               arrivals |-> 1, fails |-> 0]
Restart == [events |-> RestartEvents, stops |-> MaxStops, starts |-> MaxStarts,
            ticks |-> 0, arrivals |-> MaxStreamMsgs, fails |-> 0]
Reconnect == [events |-> 1, stops |-> MaxStops, starts |-> 1, ticks |-> 0,
              arrivals |-> 1, fails |-> MaxFails]
Scenarios == {LongStream, Restart, Reconnect}

Spend(k) == budget' = [budget EXCEPT ![k] = @ - 1]

\* a listener without the lock: every call runs connect()
StartGlobalEventListenerUnlocked ==
  /\ budget.starts > 0
  /\ FreeLoops # {}
  /\ Spend("starts")
  /\ isListenerStarted' = TRUE
  /\ shouldStopListener' = FALSE
  /\ loops' = [loops EXCEPT ![Lowest(FreeLoops)] = [NoLoop EXCEPT !.pc = "subscribing"]]
  /\ UNCHANGED <<sessionCache, sessionToFeishuMap, messageBuffers, streamTasks,
                 streamNextSession, nextPlatformId, now, lastLen, lastFragment, idsReturned, goneSessions, inFlight>>

\* startGlobalEventListener: returns at once when a listener is started,
\* otherwise takes the lock, clears the stop flag and calls connect()
StartGlobalEventListener ==
  /\ budget.starts > 0
  /\ FreeLoops # {}
  /\ Spend("starts")
  /\ IF isListenerStarted
       THEN UNCHANGED <<isListenerStarted, shouldStopListener, loops>>
       ELSE /\ isListenerStarted' = TRUE
            /\ shouldStopListener' = FALSE
            /\ loops' = [loops EXCEPT ![Lowest(FreeLoops)] =
                           [NoLoop EXCEPT !.pc = "subscribing"]]
  /\ UNCHANGED <<sessionCache, sessionToFeishuMap, messageBuffers, streamTasks,
                 streamNextSession, nextPlatformId, now, lastLen, lastFragment, idsReturned, goneSessions, inFlight>>

\* the catch block of connect(): nothing after a stop, otherwise a timer
\* that calls connect() again after the backoff delay
Disconnected(r) ==
  IF shouldStopListener THEN NoLoop
  ELSE [NoLoop EXCEPT !.pc = "backoff", !.delay = BackoffDelay(r.retryCount),
                      !.retryCount = r.retryCount + 1]

\* api.event.subscribe() returns: the loop over events.stream begins
SubscribeOk(l) ==
  /\ loops[l].pc = "subscribing"
  /\ loops' = [loops EXCEPT ![l] = [@ EXCEPT !.pc = "streaming", !.retryCount = 0]]
  /\ UNCHANGED <<sessionCache, sessionToFeishuMap, messageBuffers, isListenerStarted,
                 shouldStopListener, streamTasks, streamNextSession, nextPlatformId,
                 now, budget, lastLen, lastFragment, idsReturned, goneSessions, inFlight>>

\* api.event.subscribe() throws
SubscribeFail(l) ==
  /\ loops[l].pc = "subscribing"
  /\ budget.fails > 0
  /\ Spend("fails")
  /\ loops' = [loops EXCEPT ![l] = Disconnected(loops[l])]
  /\ UNCHANGED <<sessionCache, sessionToFeishuMap, messageBuffers, isListenerStarted,
                 shouldStopListener, streamTasks, streamNextSession, nextPlatformId,
                 now, lastLen, lastFragment, idsReturned, goneSessions, inFlight>>

\* setTimeout(connect, delay) fires: connect() subscribes again
BackoffFires(l) ==
  /\ loops[l].pc = "backoff"
  /\ loops' = [loops EXCEPT ![l] = [@ EXCEPT !.pc = "subscribing", !.delay = 0]]
  /\ UNCHANGED <<sessionCache, sessionToFeishuMap, messageBuffers, isListenerStarted,
                 shouldStopListener, streamTasks, streamNextSession, nextPlatformId,
                 now, budget, lastLen, lastFragment, idsReturned, goneSessions, inFlight>>

\* the event stream throws while the loop waits for the next event
StreamFails(l) ==
  /\ loops[l].pc = "streaming"
  /\ budget.fails > 0
  /\ Spend("fails")
  /\ loops' = [loops EXCEPT ![l] = Disconnected(loops[l])]
  /\ UNCHANGED <<sessionCache, sessionToFeishuMap, messageBuffers, isListenerStarted,
                 shouldStopListener, streamTasks, streamNextSession, nextPlatformId,
                 now, lastLen, lastFragment, idsReturned, goneSessions, inFlight>>

\* the event stream ends: the for-await loop is left and connect() returns
StreamEnds(l) ==
  /\ loops[l].pc = "streaming"
  /\ budget.fails > 0
  /\ Spend("fails")
  /\ loops' = [loops EXCEPT ![l] = NoLoop]
  /\ UNCHANGED <<sessionCache, sessionToFeishuMap, messageBuffers, isListenerStarted,
                 shouldStopListener, streamTasks, streamNextSession, nextPlatformId,
                 now, lastLen, lastFragment, idsReturned, goneSessions, inFlight>>

\* an event arrives after a stop: if (shouldStopListener) break
LoopBreaks(l) ==
  /\ loops[l].pc = "streaming"
  /\ shouldStopListener
  /\ loops' = [loops EXCEPT ![l] = NoLoop]
  /\ UNCHANGED <<sessionCache, sessionToFeishuMap, messageBuffers, isListenerStarted,
                 shouldStopListener, streamTasks, streamNextSession, nextPlatformId,
                 now, budget, lastLen, lastFragment, idsReturned, goneSessions, inFlight>>

\* the text shown for a reasoning part starts with this marker
ReasoningMarker == "Thinking...  "

\* displayContent: the content, after the marker for a reasoning buffer
DisplayContent(buffer) ==
  IF buffer.type = "reasoning" THEN ReasoningMarker \o buffer.fullContent
  ELSE buffer.fullContent

\* a loop that takes the next event while a call of the previous one is out
NextEventNoAwait(l) == loops[l].pc \in {"streaming", "sending"}

\* for await (const event of events.stream): the next event is taken when the
\* body of the loop, with its await handleStreamUpdate, has completed
NextEvent(l) == loops[l].pc = "streaming"

\* a message.part.updated event: the route lookup, then handleStreamUpdate up
\* to its await of feishu.sendMessage / feishu.editMessage
PartUpdated(l, e) ==
  /\ NextEvent(l)
  /\ ~shouldStopListener
  /\ budget.events > 0
  /\ Spend("events")
  /\ IF \/ e.sessionID = NoSession
        \/ sessionToFeishuMap[e.sessionID] = "none"
        \/ e.type \notin {"text", "reasoning"}
        \/ e.messageID = Undefined
       THEN UNCHANGED <<messageBuffers, loops, lastLen, lastFragment, inFlight>>
       ELSE LET m == e.messageID
                old == IF messageBuffers[m].present THEN messageBuffers[m]
                       ELSE NewBuffer(e.type)
                content == Aggregated(old.fullContent, e.delta, e.text)
                flush == ShouldUpdate(old, now) /\ content # ""
                buffer == [old EXCEPT !.fullContent = content,
                                      !.lastUpdateTime = IF flush THEN now ELSE @]
            IN  /\ messageBuffers' = [messageBuffers EXCEPT ![m] = buffer]
                /\ lastLen' = [lastLen EXCEPT ![m] = Len(content)]
                /\ lastFragment' = [msg |-> m, delta |-> e.delta, text |-> e.text]
                /\ loops' = IF flush
                              THEN [loops EXCEPT ![l] =
                                      [@ EXCEPT !.pc = "sending", !.msg = m,
                                                !.target = old.feishuMsgId,
                                                !.op = FlushOp(old),
                                                !.text = DisplayContent(buffer)]]
                              ELSE loops
                /\ inFlight' = IF flush THEN [inFlight EXCEPT ![l] = @ + 1] ELSE inFlight
  /\ UNCHANGED <<sessionCache, sessionToFeishuMap, isListenerStarted,
                 shouldStopListener, streamTasks, streamNextSession, nextPlatformId,
                 now, idsReturned, goneSessions>>

\* feishu.sendMessage / feishu.editMessage returns or throws: a send that
\* returned an id records it in the buffer object the call started from
FlushReturns(l, out) ==
  LET m == loops[l].msg
      sent == loops[l].op = "send" /\ out = "id"
  IN  /\ loops[l].pc = "sending"
      /\ sent => nextPlatformId <= MaxPlatformIds
      /\ nextPlatformId' = IF sent THEN nextPlatformId + 1 ELSE nextPlatformId
      /\ idsReturned' = IF sent THEN [idsReturned EXCEPT ![m] = @ + 1] ELSE idsReturned
      /\ messageBuffers' = IF sent /\ ~loops[l].detached
                             THEN [messageBuffers EXCEPT ![m].feishuMsgId = nextPlatformId]
                             ELSE messageBuffers
      /\ loops' = [loops EXCEPT ![l] = [NoLoop EXCEPT !.pc = "streaming"]]
      /\ inFlight' = [inFlight EXCEPT ![l] = @ - 1]
      /\ UNCHANGED <<sessionCache, sessionToFeishuMap, isListenerStarted,
                     shouldStopListener, streamTasks, streamNextSession, now, budget,
                     lastLen, lastFragment, goneSessions>>

\* a session.deleted or session.error event for a session the backend has
\* created: the route of the session goes
SessionGone(l, s) ==
  /\ loops[l].pc = "streaming"
  /\ s < streamNextSession
  /\ ~shouldStopListener
  /\ budget.events > 0
  /\ Spend("events")
  /\ sessionToFeishuMap' = [sessionToFeishuMap EXCEPT ![s] = "none"]
  /\ goneSessions' = goneSessions \cup {s}
  /\ UNCHANGED <<sessionCache, messageBuffers, isListenerStarted, shouldStopListener,
                 loops, streamTasks, streamNextSession, nextPlatformId, now, lastLen,
                 lastFragment, idsReturned, inFlight>>

\* stopGlobalEventListener: a flush in flight keeps the buffer object it
\* started from, which is no longer in the map
StopGlobalEventListener ==
  /\ budget.stops > 0
  /\ Spend("stops")
  /\ shouldStopListener' = TRUE
  /\ isListenerStarted' = FALSE
  /\ sessionToFeishuMap' = [s \in SessIds |-> "none"]
  /\ messageBuffers' = [m \in Msgs |-> NoBuffer]
  /\ loops' = [l \in LoopIds |->
                 IF loops[l].pc = "sending" THEN [loops[l] EXCEPT !.detached = TRUE]
                 ELSE loops[l]]
  /\ UNCHANGED <<sessionCache, streamTasks, streamNextSession, nextPlatformId, now,
                 lastLen, lastFragment, idsReturned, goneSessions, inFlight>>

\* the event-stream handler up to its first await that matters here: a
\* cached session is routed and prompted, otherwise createSession is called
StreamHandle(c) ==
  /\ budget.arrivals > 0
  /\ FreeStreamTasks # {}
  /\ Spend("arrivals")
  /\ LET t == Lowest(FreeStreamTasks)
         sid == sessionCache[c]
     IN  IF sid # NoSession
           THEN /\ sessionToFeishuMap' = [sessionToFeishuMap EXCEPT ![sid] = c]
                /\ streamTasks' = [streamTasks EXCEPT ![t] =
                                     [pc |-> "prompt", chat |-> c, sessionId |-> sid]]
           ELSE /\ streamTasks' = [streamTasks EXCEPT ![t] =
                                     [pc |-> "create", chat |-> c, sessionId |-> NoSession]]
                /\ UNCHANGED sessionToFeishuMap
  /\ UNCHANGED <<sessionCache, messageBuffers, isListenerStarted, shouldStopListener,
                 loops, streamNextSession, nextPlatformId, now, lastLen, lastFragment, idsReturned, goneSessions, inFlight>>

\* api.createSession returns: an id is cached and routed, then the prompt is
\* sent; without an id the handler reports the error and ends
StreamAfterCreate(t, out) ==
  LET c == streamTasks[t].chat
      sid == streamNextSession
  IN  /\ streamTasks[t].pc = "create"
      /\ out = "id" => streamNextSession <= MaxSessions
      /\ IF out = "id"
           THEN /\ streamNextSession' = sid + 1
                /\ sessionCache' = [sessionCache EXCEPT ![c] = sid]
                /\ sessionToFeishuMap' = [sessionToFeishuMap EXCEPT ![sid] = c]
                /\ streamTasks' = [streamTasks EXCEPT ![t] =
                                     [@ EXCEPT !.pc = "prompt", !.sessionId = sid]]
           ELSE /\ streamTasks' = [streamTasks EXCEPT ![t] = NoStreamTask]
                /\ UNCHANGED <<streamNextSession, sessionCache, sessionToFeishuMap>>
      /\ UNCHANGED <<messageBuffers, isListenerStarted, shouldStopListener, loops,
                     nextPlatformId, now, budget, lastLen, lastFragment, idsReturned, goneSessions, inFlight>>

\* api.promptSession returns or throws: a 404 removes the cached session
StreamAfterPrompt(t, out) ==
  /\ streamTasks[t].pc = "prompt"
  /\ sessionCache' = IF out = "404"
                       THEN [sessionCache EXCEPT ![streamTasks[t].chat] = NoSession]
                       ELSE sessionCache
  /\ streamTasks' = [streamTasks EXCEPT ![t] = NoStreamTask]
  /\ UNCHANGED <<sessionToFeishuMap, messageBuffers, isListenerStarted,
                 shouldStopListener, loops, streamNextSession, nextPlatformId, now,
                 budget, lastLen, lastFragment, idsReturned, goneSessions, inFlight>>

\* time passes
Tick(d) ==
  /\ budget.ticks > 0
  /\ Spend("ticks")
  /\ now' = now + d
  /\ UNCHANGED <<sessionCache, sessionToFeishuMap, messageBuffers, isListenerStarted,
                 shouldStopListener, loops, streamTasks, streamNextSession,
                 nextPlatformId, lastLen, lastFragment, idsReturned, goneSessions, inFlight>>

StreamInit ==
  /\ sessionCache = [c \in StreamChats |-> NoSession]
  /\ sessionToFeishuMap = [s \in SessIds |-> "none"]
  /\ messageBuffers = [m \in Msgs |-> NoBuffer]
  /\ isListenerStarted = FALSE
  /\ shouldStopListener = FALSE
  /\ loops = [l \in LoopIds |-> NoLoop]
  /\ streamTasks = [t \in StreamTaskIds |-> NoStreamTask]
  /\ streamNextSession = 1
  /\ nextPlatformId = 1
  /\ now = StartTime
  /\ budget \in Scenarios
  /\ lastLen = [m \in Msgs |-> 0]
  /\ lastFragment = NoFragment
  /\ idsReturned = [m \in Msgs |-> 0]
  /\ goneSessions = {}
  /\ inFlight = [l \in LoopIds |-> 0]

StreamIdle ==
  /\ sessionCache = [c \in StreamChats |-> NoSession]
  /\ sessionToFeishuMap = [s \in SessIds |-> "none"]
  /\ messageBuffers = [m \in Msgs |-> NoBuffer]
  /\ isListenerStarted = FALSE
  /\ shouldStopListener = FALSE
  /\ loops = [l \in LoopIds |-> NoLoop]
  /\ streamTasks = [t \in StreamTaskIds |-> NoStreamTask]
  /\ streamNextSession = 1
  /\ nextPlatformId = 1
  /\ now = StartTime
  /\ budget = [events |-> 0, stops |-> 0, starts |-> 0, ticks |-> 0, arrivals |-> 0,
               fails |-> 0]
  /\ lastLen = [m \in Msgs |-> 0]
  /\ lastFragment = NoFragment
  /\ idsReturned = [m \in Msgs |-> 0]
  /\ goneSessions = {}
  /\ inFlight = [l \in LoopIds |-> 0]

StreamNext ==
  \/ StartGlobalEventListener /\ StreamOnly
  \/ StopGlobalEventListener /\ StreamOnly
  \/ \E l \in LoopIds : SubscribeOk(l) /\ StreamOnly
  \/ \E l \in LoopIds : SubscribeFail(l) /\ StreamOnly
  \/ \E l \in LoopIds : BackoffFires(l) /\ StreamOnly
  \/ \E l \in LoopIds : StreamFails(l) /\ StreamOnly
  \/ \E l \in LoopIds : StreamEnds(l) /\ StreamOnly
  \/ \E l \in LoopIds : LoopBreaks(l) /\ StreamOnly
  \/ \E l \in LoopIds, e \in PartEvents : PartUpdated(l, e) /\ StreamOnly
  \/ \E l \in LoopIds, out \in {"id", "void", "throw"} : FlushReturns(l, out) /\ StreamOnly
  \/ \E l \in LoopIds, s \in SessIds : SessionGone(l, s) /\ StreamOnly
  \/ \E c \in StreamChats : StreamHandle(c) /\ StreamOnly
  \/ \E t \in StreamTaskIds, out \in {"id", "none", "throw"} :
       StreamAfterCreate(t, out) /\ StreamOnly
  \/ \E t \in StreamTaskIds, out \in {"ok", "404", "error"} :
       StreamAfterPrompt(t, out) /\ StreamOnly
  \/ \E d \in TickSteps : Tick(d) /\ StreamOnly

\* ------------------------------------------------------- Teams token
\* this.accessToken === '' / this.refreshToken === undefined
NoToken == 0
\* the token and the refresh token of the configuration
ConfiguredToken == 1
ReqIds == 1..MaxRequests
\* expires_in of a token response, in seconds (0: the field is absent)
ExpiresIns == {0, 60, 61}
\* res.data.expires_in || 3600
DefaultExpiresIn == 3600
\* Date.now() < this.tokenExpiresAt - 60000
SafetyMargin == 60000
\* clock advances, in ms
TokenSteps == {1000, 3540000}

Configs ==
  [access_token : {NoToken, ConfiguredToken},
   refresh_token : {NoToken, ConfiguredToken},
   client_id : BOOLEAN]

\* token responses of the provider: a new access token, a new refresh token
\* or none, and a lifetime
TokenResponses ==
  [access_token : {issued + 2}, refresh_token : {NoToken, issued + 2},
   expires_in : ExpiresIns]

NoRequest == [pc |-> "none", kind |-> "none", token |-> NoToken, err |-> "none"]
FreeRequests == {r \in ReqIds : requests[r].pc = "none"}
Refreshing == {r \in ReqIds : requests[r].pc = "refreshing"}

\* this.accessToken && Date.now() <= this.tokenExpiresAt - 60000
IsValidInclusive == accessToken # NoToken /\ tokenNow <= tokenExpiresAt - SafetyMargin

\* this.accessToken && Date.now() < this.tokenExpiresAt - 60000
IsValid == accessToken # NoToken /\ tokenNow < tokenExpiresAt - SafetyMargin

\* the refresh branch taken whatever is configured
CanRefreshAlways == TRUE

\* this.refreshToken && this.config.client_id
CanRefresh == refreshToken # NoToken /\ config.client_id

\* the refresh token of the response, kept or not
RotatedAlways(res) == res.refresh_token

\* res.data.refresh_token || this.refreshToken
Rotated(res) == IF res.refresh_token # NoToken THEN res.refresh_token ELSE refreshToken

\* Date.now() + expiresIn * 1000, with expiresIn = res.data.expires_in || 3600
ExpiresAt(res) ==
  tokenNow + (IF res.expires_in # 0 THEN res.expires_in ELSE DefaultExpiresIn) * 1000

\* the request interceptor runs ensureValidToken up to its first await: a
\* valid token goes into the Authorization header at once, a stale one is
\* refreshed when a refresh token and a client id are there (the POST to the
\* token endpoint is issued), otherwise the token of the configuration is
\* used as it is, and without any token the request fails
EnsureValidToken(r, k) ==
  /\ FreeRequests # {} /\ r = Lowest(FreeRequests)
  /\ tokenBudget.calls > 0
  /\ tokenBudget' = [tokenBudget EXCEPT !.calls = @ - 1]
  /\ CASE IsValid ->
            /\ requests' = [requests EXCEPT ![r] =
                              [pc |-> "sent", kind |-> k, token |-> accessToken,
                               err |-> "none"]]
            /\ UNCHANGED refreshCalls
       [] ~IsValid /\ CanRefresh ->
            /\ requests' = [requests EXCEPT ![r] =
                              [pc |-> "refreshing", kind |-> k, token |-> NoToken,
                               err |-> "none"]]
            /\ refreshCalls' = refreshCalls + 1
       [] ~IsValid /\ ~CanRefresh /\ accessToken = NoToken ->
            /\ requests' = [requests EXCEPT ![r] =
                              [pc |-> "failed", kind |-> k, token |-> NoToken,
                               err |-> "NoAccessToken"]]
            /\ UNCHANGED refreshCalls
       [] ~IsValid /\ ~CanRefresh /\ accessToken # NoToken ->
            /\ requests' = [requests EXCEPT ![r] =
                              [pc |-> "sent", kind |-> k, token |-> accessToken,
                               err |-> "none"]]
            /\ UNCHANGED refreshCalls

\* an outbound request of the adapter that is not part of the poll loop
\* (sendMessage, editMessage, sendDirectMessage)
Outbound(r) ==
  /\ EnsureValidToken(r, "send")
  /\ UNCHANGED <<config, accessToken, refreshToken, tokenExpiresAt, tokenNow,
                 polling, pollPc, issued>>

\* the POST to the token endpoint returned: the three fields are assigned
\* with no await in between, then the request goes out with the new token
RefreshOk(r, res) ==
  /\ requests[r].pc = "refreshing"
  /\ res \in TokenResponses
  /\ accessToken' = res.access_token
  /\ refreshToken' = Rotated(res)
  /\ tokenExpiresAt' = ExpiresAt(res)
  /\ issued' = issued + 1
  /\ requests' = [requests EXCEPT ![r] =
                    [@ EXCEPT !.pc = "sent", !.token = res.access_token]]
  /\ UNCHANGED <<config, tokenNow, polling, pollPc, refreshCalls, tokenBudget>>

\* a failed refresh that drops the access token
RefreshFailClears(r) ==
  /\ requests[r].pc = "refreshing"
  /\ requests' = [requests EXCEPT ![r] =
                    [@ EXCEPT !.pc = "failed", !.err = "TokenRefreshFailed"]]
  /\ accessToken' = NoToken
  /\ UNCHANGED <<config, refreshToken, tokenExpiresAt, tokenNow,
                 polling, pollPc, refreshCalls, issued, tokenBudget>>

\* the POST to the token endpoint failed: the error is logged and thrown
\* again, the request fails in the interceptor
RefreshFail(r) ==
  /\ requests[r].pc = "refreshing"
  /\ requests' = [requests EXCEPT ![r] =
                    [@ EXCEPT !.pc = "failed", !.err = "TokenRefreshFailed"]]
  /\ UNCHANGED <<config, accessToken, refreshToken, tokenExpiresAt, tokenNow,
                 polling, pollPc, refreshCalls, issued, tokenBudget>>

\* a poll loop that an error of listChats or getMessages ends
AfterCallThrows(kind, out) ==
  CASE out = "error" -> "off"
    [] out # "error" /\ kind = "baselineList" ->
         IF out = "ok" THEN "baselineMessages" ELSE "loop"
    [] out # "error" /\ kind = "baselineMessages" -> "loop"
    [] out # "error" /\ kind = "listChats" ->
         IF out = "ok" THEN "getMessages" ELSE "sleep"
    [] OTHER -> "sleep"

\* where startPolling goes once listChats or getMessages has returned: both
\* catch every error and return [], so a failed call is an empty answer;
\* chats are followed by getMessages; the baseline fetch is followed by the
\* loop, an iteration of the loop by sleep(pollInterval)
AfterCall(kind, out) ==
  CASE kind = "baselineList" -> IF out = "ok" THEN "baselineMessages" ELSE "loop"
    [] kind = "baselineMessages" -> "loop"
    [] kind = "listChats" -> IF out = "ok" THEN "getMessages" ELSE "sleep"
    [] OTHER -> "sleep"

\* an outbound request settles: sent ones by the answer of the Graph API
\* (data, nothing, or an error), failed ones by the error of the interceptor
Returns(r, out) ==
  /\ requests[r].pc \in {"sent", "failed"}
  /\ requests[r].pc = "failed" => out = "error"
  /\ requests' = [requests EXCEPT ![r] = NoRequest]
  /\ pollPc' = IF requests[r].kind = "send" THEN pollPc
               ELSE AfterCall(requests[r].kind, out)
  /\ UNCHANGED <<config, accessToken, refreshToken, tokenExpiresAt, tokenNow,
                 polling, refreshCalls, issued, tokenBudget>>

\* startPolling: this.polling is the guard; the baseline fetch begins with
\* listChats
StartPolling(r) ==
  /\ ~polling /\ pollPc = "off"
  /\ polling' = TRUE
  /\ pollPc' = "calling"
  /\ EnsureValidToken(r, "baselineList")
  /\ UNCHANGED <<config, accessToken, refreshToken, tokenExpiresAt, tokenNow, issued>>

\* getMessages is called for the chat listChats returned
PollGetMessages(r) ==
  /\ pollPc \in {"getMessages", "baselineMessages"}
  /\ pollPc' = "calling"
  /\ EnsureValidToken(r, pollPc)
  /\ UNCHANGED <<config, accessToken, refreshToken, tokenExpiresAt, tokenNow,
                 polling, issued>>

\* the baseline fetch or sleep(pollInterval) is over: while (this.polling)
\* goes round with listChats, or the loop ends
PollWakes(r) ==
  /\ pollPc \in {"loop", "sleep"}
  /\ IF polling
       THEN /\ pollPc' = "calling"
            /\ EnsureValidToken(r, "listChats")
       ELSE /\ pollPc' = "off"
            /\ UNCHANGED <<requests, refreshCalls, tokenBudget>>
  /\ UNCHANGED <<config, accessToken, refreshToken, tokenExpiresAt, tokenNow,
                 polling, issued>>

\* stop(): this.polling = false
TeamsStop ==
  /\ polling
  /\ polling' = FALSE
  /\ UNCHANGED <<config, accessToken, refreshToken, tokenExpiresAt, tokenNow,
                 requests, pollPc, refreshCalls, issued, tokenBudget>>

\* time passes
TokenTick(d) ==
  /\ tokenBudget.ticks > 0
  /\ tokenBudget' = [tokenBudget EXCEPT !.ticks = @ - 1]
  /\ tokenNow' = tokenNow + d
  /\ UNCHANGED <<config, accessToken, refreshToken, tokenExpiresAt, requests,
                 polling, pollPc, refreshCalls, issued>>

\* new TeamsClient(config)
TokenInit ==
  /\ config \in Configs
  /\ accessToken = config.access_token
  /\ refreshToken = config.refresh_token
  /\ tokenExpiresAt = 0
  /\ tokenNow = StartTime + SafetyMargin
  /\ requests = [r \in ReqIds |-> NoRequest]
  /\ polling = FALSE
  /\ pollPc = "off"
  /\ refreshCalls = 0
  /\ issued = 0
  /\ tokenBudget = [calls |-> MaxCalls, ticks |-> MaxTokenTicks]

TokenIdle ==
  /\ config = [access_token |-> NoToken, refresh_token |-> NoToken, client_id |-> FALSE]
  /\ accessToken = NoToken
  /\ refreshToken = NoToken
  /\ tokenExpiresAt = 0
  /\ tokenNow = StartTime + SafetyMargin
  /\ requests = [r \in ReqIds |-> NoRequest]
  /\ polling = FALSE
  /\ pollPc = "off"
  /\ refreshCalls = 0
  /\ issued = 0
  /\ tokenBudget = [calls |-> 0, ticks |-> 0]

TokenNext ==
  \/ \E r \in ReqIds : Outbound(r) /\ TokenOnly
  \/ \E r \in ReqIds, res \in TokenResponses : RefreshOk(r, res) /\ TokenOnly
  \/ \E r \in ReqIds : RefreshFail(r) /\ TokenOnly
  \/ \E r \in ReqIds, out \in {"ok", "empty", "error"} : Returns(r, out) /\ TokenOnly
  \/ \E r \in ReqIds : StartPolling(r) /\ TokenOnly
  \/ \E r \in ReqIds : PollGetMessages(r) /\ TokenOnly
  \/ \E r \in ReqIds : PollWakes(r) /\ TokenOnly
  \/ TeamsStop /\ TokenOnly
  \/ \E d \in TokenSteps : TokenTick(d) /\ TokenOnly

\* ------------------------------------------------------- plugin bootstrap
\* globalState.__bridge_mux === undefined
NoMux == 0
BootIds == 1..MaxBoots
\* BridgePlugin, TeamsBridgePlugin, FeishuBridgePlugin
BootKinds == {"bridge", "teams", "feishu"}

\* what client.config.get() can lead to: it throws (or times out), or it
\* returns a configuration with these adapters enabled, in start order
Threw == <<"throw">>
ConfigOutcomes(kind) ==
  CASE kind = "bridge" -> {Threw, <<>>, <<"lark">>, <<"teams">>, <<"lark", "teams">>}
    [] kind = "teams" -> {Threw, <<>>, <<"teams">>}
    [] kind = "feishu" -> {Threw, <<>>, <<"lark">>}
AllConfigOutcomes == UNION {ConfigOutcomes(k) : k \in BootKinds}

NoBoot == [pc |-> "none", kind |-> "bridge", mux |-> NoMux, todo |-> <<>>]
FreeBoots == {b \in BootIds : boots[b].pc = "none"}

\* a bootstrap that constructs its own registry
MuxAlwaysNew == muxCreated + 1

\* globalState.__bridge_mux || new AdapterMux()
MuxOrNew == IF bridgeMux # NoMux THEN bridgeMux ELSE muxCreated + 1

\* the plugin entry is invoked: bootstrap() runs up to await client.config.get()
Bootstrap(b, kind) ==
  /\ FreeBoots # {} /\ b = Lowest(FreeBoots)
  /\ boots' = [boots EXCEPT ![b] = [NoBoot EXCEPT !.pc = "config", !.kind = kind]]
  /\ UNCHANGED <<bridgeMux, muxCreated, registerCalls, bridgeListenerStarted,
                 feishuListenerStarted, feishuInstance, startCalls>>
  /\ UNCHANGED streamVars

\* the listener part of a bootstrap: the flag is tested and set and
\* startGlobalEventListener is called with no await in between
StartsListenerOnce(flag) ==
  IF flag
    THEN UNCHANGED <<streamVars, startCalls>>
    ELSE /\ StartGlobalEventListener
         /\ startCalls' = startCalls + 1

\* client.config.get() returned or threw. BridgePlugin and TeamsBridgePlugin
\* get or create the registry, register the first enabled adapter and await
\* its start; FeishuBridgePlugin gets or creates its client, starts the
\* listener unless its flag is set, and awaits the start of the client
ConfigReturns(b, out) ==
  /\ boots[b].pc = "config"
  /\ out \in ConfigOutcomes(boots[b].kind)
  /\ CASE out = Threw ->
            /\ boots' = [boots EXCEPT ![b] = [@ EXCEPT !.pc = "done"]]
            /\ UNCHANGED <<bridgeMux, muxCreated, registerCalls, bridgeListenerStarted,
                           feishuListenerStarted, feishuInstance, startCalls>>
            /\ UNCHANGED streamVars
       [] out # Threw /\ boots[b].kind # "feishu" ->
            /\ bridgeMux' = MuxOrNew
            /\ muxCreated' = IF MuxOrNew > muxCreated THEN MuxOrNew ELSE muxCreated
            /\ IF out = <<>>
                 THEN /\ boots' = [boots EXCEPT ![b] =
                                     [@ EXCEPT !.pc = "done", !.mux = MuxOrNew]]
                      /\ UNCHANGED registerCalls
                 ELSE /\ boots' = [boots EXCEPT ![b] =
                                     [@ EXCEPT !.pc = "starting", !.mux = MuxOrNew,
                                               !.todo = out]]
                      /\ registerCalls' = registerCalls \cup {<<MuxOrNew, Head(out)>>}
            /\ UNCHANGED <<bridgeListenerStarted, feishuListenerStarted,
                           feishuInstance, startCalls>>
            /\ UNCHANGED streamVars
       [] out # Threw /\ boots[b].kind = "feishu" ->
            /\ IF out = <<>>
                 THEN /\ boots' = [boots EXCEPT ![b] = [@ EXCEPT !.pc = "done"]]
                      /\ UNCHANGED <<feishuListenerStarted, feishuInstance,
                                     startCalls>>
                      /\ UNCHANGED streamVars
                 ELSE /\ boots' = [boots EXCEPT ![b] =
                                     [@ EXCEPT !.pc = "starting", !.todo = out]]
                      /\ feishuInstance' = TRUE
                      /\ StartsListenerOnce(feishuListenerStarted)
                      /\ feishuListenerStarted' = TRUE
            /\ UNCHANGED <<bridgeMux, muxCreated, registerCalls, bridgeListenerStarted>>

\* await adapter.start(incoming) returned or threw. BridgePlugin registers
\* and starts the next enabled adapter; after the last one the listener is
\* started unless the flag is set. A throw ends the bootstrap in its catch.
AdapterStarted(b, out) ==
  /\ boots[b].pc = "starting"
  /\ CASE out = "throw" \/ boots[b].kind = "feishu" ->
            /\ boots' = [boots EXCEPT ![b] = [@ EXCEPT !.pc = "done", !.todo = <<>>]]
            /\ UNCHANGED <<registerCalls, bridgeListenerStarted, startCalls>>
            /\ UNCHANGED streamVars
       [] out = "ok" /\ boots[b].kind # "feishu" /\ Len(boots[b].todo) > 1 ->
            /\ boots' = [boots EXCEPT ![b] = [@ EXCEPT !.todo = Tail(@)]]
            /\ registerCalls' = registerCalls \cup {<<boots[b].mux, boots[b].todo[2]>>}
            /\ UNCHANGED <<bridgeListenerStarted, startCalls>>
            /\ UNCHANGED streamVars
       [] out = "ok" /\ boots[b].kind # "feishu" /\ Len(boots[b].todo) <= 1 ->
            /\ boots' = [boots EXCEPT ![b] = [@ EXCEPT !.pc = "done", !.todo = <<>>]]
            /\ StartsListenerOnce(bridgeListenerStarted)
            /\ bridgeListenerStarted' = TRUE
            /\ UNCHANGED registerCalls
  /\ UNCHANGED <<bridgeMux, muxCreated, feishuListenerStarted, feishuInstance>>

BootInit ==
  /\ boots = [b \in BootIds |-> NoBoot]
  /\ bridgeMux = NoMux
  /\ muxCreated = 0
  /\ registerCalls = {}
  /\ bridgeListenerStarted = FALSE
  /\ feishuListenerStarted = FALSE
  /\ feishuInstance = FALSE
  /\ startCalls = 0

\* the listener before any bootstrap, with the connection failures to come
Booting == [events |-> 0, stops |-> 0, starts |-> MaxBoots, ticks |-> 0,
            arrivals |-> 0, fails |-> MaxBootFails]

BootStreamInit ==
  /\ sessionCache = [c \in StreamChats |-> NoSession]
  /\ sessionToFeishuMap = [s \in SessIds |-> "none"]
  /\ messageBuffers = [m \in Msgs |-> NoBuffer]
  /\ isListenerStarted = FALSE
  /\ shouldStopListener = FALSE
  /\ loops = [l \in LoopIds |-> NoLoop]
  /\ streamTasks = [t \in StreamTaskIds |-> NoStreamTask]
  /\ streamNextSession = 1
  /\ nextPlatformId = 1
  /\ now = StartTime
  /\ budget = Booting
  /\ lastLen = [m \in Msgs |-> 0]
  /\ lastFragment = NoFragment
  /\ idsReturned = [m \in Msgs |-> 0]
  /\ goneSessions = {}
  /\ inFlight = [l \in LoopIds |-> 0]

BootNext ==
  \/ \E b \in BootIds, kind \in BootKinds : Bootstrap(b, kind) /\ BootOnly
  \/ \E b \in BootIds, out \in AllConfigOutcomes : ConfigReturns(b, out) /\ BootOnly
  \/ \E b \in BootIds, out \in {"ok", "throw"} : AdapterStarted(b, out) /\ BootOnly
  \/ \E l \in LoopIds : SubscribeOk(l) /\ StreamOnly
  \/ \E l \in LoopIds : SubscribeFail(l) /\ StreamOnly
  \/ \E l \in LoopIds : BackoffFires(l) /\ StreamOnly
  \/ \E l \in LoopIds : StreamFails(l) /\ StreamOnly

\* ------------------------------------------------------- Teams poll loops
\* TeamsClient instances and the runs of startPolling; one chat, whose
\* messages are numbered in the order of their createdDateTime
ClientIds == 1..MaxClients
PollerIds == 1..MaxPollers
\* lastSeenMap.get(chat.id) === undefined
NoLastSeen == 0
BaselineTop == 1        \* getMessages(chat.id, 1)
PollTop == 5            \* getMessages(chat.id, 5)

NoPoller == [client |-> 0, pc |-> "none", lastSeen |-> NoLastSeen, messages |-> <<>>,
             idx |-> 0, stopped |-> FALSE, awaited |-> FALSE]
FreePollers == {p \in PollerIds : pollers[p].pc = "none"}
\* the runs of startPolling that have not returned
ActivePollers == {p \in PollerIds : pollers[p].pc \notin {"none", "ended"}}

\* the answer of the Graph API: the newest top messages, newest first
TopMessages(top) ==
  LET n == IF chatLog < top THEN chatLog ELSE top
  IN  [i \in 1..n |-> chatLog + 1 - i]

\* Array.prototype.reverse, which reverses the array in place
Reverse(s) == [i \in 1..Len(s) |-> s[Len(s) + 1 - i]]

\* the body of for (const msg of messages.reverse()) from position i on, up
\* to the first message handed to onMessage: every message looked at goes
\* through isMessageProcessed, a processed one and one not newer than
\* lastSeen are skipped (the messages of the chat are user messages with text)
RECURSIVE Scan(_, _, _, _)
Scan(messages, i, q, lastSeen) ==
  IF i > Len(messages) THEN [q |-> q, idx |-> i, deliver |-> FALSE]
  ELSE LET msg == messages[i]
           fresh == ~IsMessageProcessed(q, msg)
           after == ProcessedAfter(q, msg)
       IN  IF fresh /\ ~(lastSeen # NoLastSeen /\ msg <= lastSeen)
             THEN [q |-> after, idx |-> i, deliver |-> TRUE]
             ELSE Scan(messages, i + 1, after, lastSeen)

\* while (this.polling): the next iteration begins with listChats, or the
\* run of startPolling returns
LoopHead(r, c) ==
  IF clientPolling[c] THEN [r EXCEPT !.pc = "listChats", !.messages = <<>>, !.idx = 0]
  ELSE [r EXCEPT !.pc = "ended", !.messages = <<>>, !.idx = 0]

\* the for loop over the fetched messages goes on from position i: it stops
\* at the await of onMessage, or ends, records messages[0] as last seen and
\* goes to sleep
ForMessages(r, i) ==
  LET s == Scan(r.messages, i, teamsProcessed, r.lastSeen)
  IN  IF s.deliver
        THEN [r EXCEPT !.pc = "onMessage", !.idx = s.idx]
        ELSE [r EXCEPT !.pc = "sleep", !.idx = 0,
                       !.lastSeen = IF Len(r.messages) > 0 THEN r.messages[1] ELSE @]

\* mux.register(key, adapter): the adapter stored under the key afterwards
Registered(prior, adapter) == adapter

SpendTeams(k) == teamsBudget' = [teamsBudget EXCEPT ![k] = @ - 1]

\* startPolling on client c: nothing when this.polling is set, otherwise the
\* flag is set and the baseline fetch begins with listChats
StartPollingOn(c, fromBoot) ==
  IF clientPolling[c]
    THEN UNCHANGED <<clientPolling, pollers>>
    ELSE /\ FreePollers # {}
         /\ clientPolling' = [clientPolling EXCEPT ![c] = TRUE]
         /\ pollers' = [pollers EXCEPT ![Lowest(FreePollers)] =
                          [NoPoller EXCEPT !.client = c, !.pc = "baselineList",
                                           !.awaited = fromBoot]]

\* a caller starts polling on an existing client
StartPollingAgain(c) ==
  /\ c < nextClient
  /\ teamsBudget.starts > 0
  /\ SpendTeams("starts")
  /\ StartPollingOn(c, FALSE)
  /\ UNCHANGED <<chatLog, teamsProcessed, onMessageLog, teamsRegistry, nextClient,
                 teamsBoot>>

\* a bootstrap with the Teams adapter enabled: a new TeamsAdapter with its
\* new TeamsClient is registered under the Teams key, then the bootstrap
\* awaits adapter.start, which awaits client.startPolling
TeamsBootstrap ==
  /\ nextClient <= MaxClients
  /\ nextClient' = nextClient + 1
  /\ teamsRegistry' = Registered(teamsRegistry, nextClient)
  /\ teamsBoot' = [teamsBoot EXCEPT ![nextClient] = "awaitStart"]
  /\ StartPollingOn(nextClient, TRUE)
  /\ UNCHANGED <<chatLog, teamsProcessed, onMessageLog, teamsBudget>>

\* the startPolling promise the bootstrap of client c awaits has resolved:
\* the bootstrap goes on to the listener step
StartReturns(c) ==
  /\ teamsBoot[c] = "awaitStart"
  /\ \A p \in PollerIds :
       pollers[p].client = c /\ pollers[p].awaited => pollers[p].pc = "ended"
  /\ teamsBoot' = [teamsBoot EXCEPT ![c] = "listener"]
  /\ UNCHANGED <<clientPolling, pollers, chatLog, teamsProcessed, onMessageLog,
                 teamsRegistry, nextClient, teamsBudget>>

\* stop() on client c: this.polling = false
StopClient(c) ==
  /\ c < nextClient
  /\ teamsBudget.stops > 0
  /\ SpendTeams("stops")
  /\ clientPolling' = [clientPolling EXCEPT ![c] = FALSE]
  /\ pollers' = [p \in PollerIds |->
                   IF pollers[p].client = c /\ p \in ActivePollers
                     THEN [pollers[p] EXCEPT !.stopped = TRUE] ELSE pollers[p]]
  /\ UNCHANGED <<chatLog, teamsProcessed, onMessageLog, teamsRegistry, nextClient,
                 teamsBoot>>

\* listChats returns the chat, or [] (also when the request failed)
ListChatsReturns(p, out) ==
  LET r == pollers[p]
  IN  /\ r.pc \in {"baselineList", "listChats"}
      /\ out = "empty" => teamsBudget.fails > 0
      /\ teamsBudget' = IF out = "empty" THEN [teamsBudget EXCEPT !.fails = @ - 1]
                        ELSE teamsBudget
      /\ pollers' = [pollers EXCEPT ![p] =
           CASE r.pc = "baselineList" /\ out = "ok" -> [r EXCEPT !.pc = "baselineMessages"]
             [] r.pc = "baselineList" /\ out # "ok" -> LoopHead(r, r.client)
             [] r.pc = "listChats" /\ out = "ok" -> [r EXCEPT !.pc = "getMessages"]
             [] OTHER -> [r EXCEPT !.pc = "sleep"]]
      /\ UNCHANGED <<clientPolling, chatLog, teamsProcessed, onMessageLog,
                     teamsRegistry, nextClient, teamsBoot>>

\* getMessages returns the newest messages, or [] (also when the request
\* failed). Baseline: messages[0] is recorded as last seen and the loop
\* begins. Loop: the messages are reversed in place and looked at oldest
\* first, up to the first await of onMessage or the end of the for loop
GetMessagesReturns(p, out) ==
  LET r == pollers[p]
      base == IF out = "ok" THEN TopMessages(BaselineTop) ELSE <<>>
      five == IF out = "ok" THEN Reverse(TopMessages(PollTop)) ELSE <<>>
      next == ForMessages([r EXCEPT !.messages = five], 1)
      s == Scan(five, 1, teamsProcessed, r.lastSeen)
  IN  /\ r.pc \in {"baselineMessages", "getMessages"}
      /\ out = "empty" => teamsBudget.fails > 0
      /\ teamsBudget' = IF out = "empty" THEN [teamsBudget EXCEPT !.fails = @ - 1]
                        ELSE teamsBudget
      /\ IF r.pc = "baselineMessages"
           THEN /\ pollers' = [pollers EXCEPT ![p] =
                     LoopHead([r EXCEPT !.lastSeen = IF Len(base) > 0 THEN base[1] ELSE @],
                              r.client)]
                /\ UNCHANGED <<teamsProcessed, onMessageLog>>
           ELSE /\ pollers' = [pollers EXCEPT ![p] = next]
                /\ teamsProcessed' = s.q
                /\ onMessageLog' = IF s.deliver
                                     THEN Append(onMessageLog, <<p, five[s.idx]>>)
                                     ELSE onMessageLog
      /\ UNCHANGED <<clientPolling, chatLog, teamsRegistry, nextClient, teamsBoot>>

\* onMessage returns: the for loop goes on with the next message. onMessage
\* throws: the catch of the poll loop logs it and the loop goes to sleep
OnMessageReturns(p, out) ==
  LET r == pollers[p]
      s == Scan(r.messages, r.idx + 1, teamsProcessed, r.lastSeen)
  IN  /\ r.pc = "onMessage"
      /\ IF out = "ok"
           THEN /\ pollers' = [pollers EXCEPT ![p] = ForMessages(r, r.idx + 1)]
                /\ teamsProcessed' = s.q
                /\ onMessageLog' = IF s.deliver
                                     THEN Append(onMessageLog, <<p, r.messages[s.idx]>>)
                                     ELSE onMessageLog
           ELSE /\ pollers' = [pollers EXCEPT ![p] =
                                 [r EXCEPT !.pc = "sleep", !.idx = 0]]
                /\ UNCHANGED <<teamsProcessed, onMessageLog>>
      /\ UNCHANGED <<clientPolling, chatLog, teamsRegistry, nextClient, teamsBoot,
                     teamsBudget>>

\* sleep(this.pollInterval) is over: while (this.polling)
SleepReturns(p) ==
  /\ pollers[p].pc = "sleep"
  /\ clientPolling[pollers[p].client] => teamsBudget.rounds > 0
  /\ teamsBudget' = IF clientPolling[pollers[p].client]
                      THEN [teamsBudget EXCEPT !.rounds = @ - 1] ELSE teamsBudget
  /\ pollers' = [pollers EXCEPT ![p] = LoopHead(pollers[p], pollers[p].client)]
  /\ UNCHANGED <<clientPolling, chatLog, teamsProcessed, onMessageLog, teamsRegistry,
                 nextClient, teamsBoot>>

\* someone posts a message in the chat
NewChatMessage ==
  /\ chatLog < MaxChatMsgs
  /\ chatLog' = chatLog + 1
  /\ UNCHANGED <<clientPolling, pollers, teamsProcessed, onMessageLog, teamsRegistry,
                 nextClient, teamsBoot, teamsBudget>>

\* a process with no TeamsClient yet and a chat that holds some messages
TeamsInit ==
  /\ clientPolling = [c \in ClientIds |-> FALSE]
  /\ pollers = [p \in PollerIds |-> NoPoller]
  /\ chatLog \in 0..(MaxChatMsgs - 1)
  /\ teamsProcessed = <<>>
  /\ onMessageLog = <<>>
  /\ teamsRegistry = 0
  /\ nextClient = 1
  /\ teamsBoot = [c \in ClientIds |-> "none"]
  /\ teamsBudget = [starts |-> MaxRestarts, stops |-> MaxTeamsStops,
                    fails |-> MaxTeamsFails, rounds |-> MaxRounds]

TeamsIdle ==
  /\ clientPolling = [c \in ClientIds |-> FALSE]
  /\ pollers = [p \in PollerIds |-> NoPoller]
  /\ chatLog = 0
  /\ teamsProcessed = <<>>
  /\ onMessageLog = <<>>
  /\ teamsRegistry = 0
  /\ nextClient = 1
  /\ teamsBoot = [c \in ClientIds |-> "none"]
  /\ teamsBudget = [starts |-> 0, stops |-> 0, fails |-> 0, rounds |-> 0]

TeamsNext ==
  \/ TeamsBootstrap /\ TeamsOnly
  \/ \E c \in ClientIds : StartPollingAgain(c) /\ TeamsOnly
  \/ \E c \in ClientIds : StartReturns(c) /\ TeamsOnly
  \/ \E c \in ClientIds : StopClient(c) /\ TeamsOnly
  \/ \E p \in PollerIds, out \in {"ok", "empty"} : ListChatsReturns(p, out) /\ TeamsOnly
  \/ \E p \in PollerIds, out \in {"ok", "empty"} : GetMessagesReturns(p, out) /\ TeamsOnly
  \/ \E p \in PollerIds, out \in {"ok", "throw"} : OnMessageReturns(p, out) /\ TeamsOnly
  \/ \E p \in PollerIds : SleepReturns(p) /\ TeamsOnly
  \/ NewChatMessage /\ TeamsOnly

\* ------------------------------------------------------- specifications
\* the queued message handler
InitHandler == HandlerInit /\ DedupIdle /\ StreamIdle /\ TokenIdle /\ BootInit /\ TeamsIdle
SpecHandler == InitHandler /\ [][HandlerNext]_vars

\* the processed-id cache of an adapter
InitDedup == DedupInit /\ HandlerIdle /\ StreamIdle /\ TokenIdle /\ BootInit /\ TeamsIdle
SpecDedup == InitDedup /\ [][DedupNext]_vars

\* the throttle of the stream flush: a conversation routed to session 1 and
\* a listener that consumes the event stream while time passes
ThrottleSteps == {10, 800, 801, 900}
Throttle == [events |-> MaxThrottleEvents, stops |-> 0, starts |-> 0,
             ticks |-> MaxThrottleTicks, arrivals |-> 0, fails |-> 0]

ThrottleInit ==
  /\ sessionCache = [c \in StreamChats |-> 1]
  /\ sessionToFeishuMap = [s \in SessIds |-> IF s = 1 THEN "A" ELSE "none"]
  /\ messageBuffers = [m \in Msgs |-> NoBuffer]
  /\ isListenerStarted = TRUE
  /\ shouldStopListener = FALSE
  /\ loops = [l \in LoopIds |->
                IF l = 1 THEN [NoLoop EXCEPT !.pc = "streaming"] ELSE NoLoop]
  /\ streamTasks = [t \in StreamTaskIds |-> NoStreamTask]
  /\ streamNextSession = 2
  /\ nextPlatformId = 1
  /\ now = StartTime
  /\ budget = Throttle
  /\ lastLen = [m \in Msgs |-> 0]
  /\ lastFragment = NoFragment
  /\ idsReturned = [m \in Msgs |-> 0]
  /\ goneSessions = {}
  /\ inFlight = [l \in LoopIds |-> 0]

ThrottleNext ==
  \/ \E l \in LoopIds, e \in PartEvents : PartUpdated(l, e) /\ StreamOnly
  \/ \E l \in LoopIds, out \in {"id", "void", "throw"} : FlushReturns(l, out) /\ StreamOnly
  \/ \E d \in ThrottleSteps : Tick(d) /\ StreamOnly

InitThrottle == ThrottleInit /\ HandlerIdle /\ DedupIdle /\ TokenIdle /\ BootInit /\ TeamsIdle
SpecThrottle == InitThrottle /\ [][ThrottleNext]_vars

\* the queued message handler in the middle of a long wait: the first task
\* of conversation A has sent its prompt to session 1 and is polling, the
\* second message of A is queued behind it, and the backend can answer "not
\* completed yet" until the attempts of the first task are used up
PollInit ==
  /\ tasks = <<[chat |-> "A", sender |-> "u1", prev |-> NoTask, pc |-> "poll",
                sessionId |-> 1, reactionId |-> TRUE, attempts |-> 1,
                failed |-> FALSE, sent |-> <<>>],
               [chat |-> "A", sender |-> "u1", prev |-> 1, pc |-> "waiting",
                sessionId |-> NoSession, reactionId |-> FALSE, attempts |-> 0,
                failed |-> FALSE, sent |-> <<>>]>>
  /\ chatQueues = [c \in Chats |-> IF c = "A" THEN 2 ELSE NoTask]
  /\ sessionMap = [c \in Chats |-> IF c = "A" THEN 1 ELSE NoSession]
  /\ sessionOwnerMap = [s \in SessIds |-> IF s = 1 THEN "u1" ELSE "none"]
  /\ backendTitle = [s \in SessIds |-> IF s = 1 THEN "A" ELSE "none"]
  /\ nextSession = 2
  /\ pongs = [c \in Chats |-> 0]
  /\ toArrive = 0
  /\ pendingLeft = maxAttempts
  /\ createCalls = [c \in Chats |-> IF c = "A" THEN 1 ELSE 0]
  /\ createOk = [c \in Chats |-> IF c = "A" THEN 1 ELSE 0]
  /\ promptLog = [c \in Chats |-> IF c = "A" THEN <<1>> ELSE <<>>]

PollNext ==
  \/ \E t \in TaskIds : StartBody(t) /\ HandlerOnly
  \/ \E t \in TaskIds, out \in {"id", "null", "throw"} :
       AfterAddReaction(t, out) /\ HandlerOnly
  \/ \E t \in TaskIds, out \in {"ok", "404", "error"} :
       AfterPrompt(t, out) /\ HandlerOnly
  \/ \E t \in TaskIds, out \in {"pending", "completed", "error"} :
       AfterPoll(t, out) /\ HandlerOnly
  \/ \E t \in TaskIds, out \in {"ok", "throw"} : AfterSend(t, out) /\ HandlerOnly
  \/ \E t \in TaskIds, out \in {"ok", "throw"} : AfterErrSend(t, out) /\ HandlerOnly
  \/ \E t \in TaskIds, out \in {"ok", "throw"} :
       AfterRemoveReaction(t, out) /\ HandlerOnly

InitPoll == PollInit /\ DedupIdle /\ StreamIdle /\ TokenIdle /\ BootInit /\ TeamsIdle
SpecPoll == InitPoll /\ [][PollNext]_vars

\* the event-stream listener and its handler
InitStream == StreamInit /\ HandlerIdle /\ DedupIdle /\ TokenIdle /\ BootInit /\ TeamsIdle

\* the reconnects of the listener: a started listener whose connection
\* fails again and again
KeepsFailing == [events |-> 0, stops |-> 0, starts |-> 0, ticks |-> 0, arrivals |-> 0,
              fails |-> MaxBackoffFails]

BackoffInit ==
  /\ sessionCache = [c \in StreamChats |-> NoSession]
  /\ sessionToFeishuMap = [s \in SessIds |-> "none"]
  /\ messageBuffers = [m \in Msgs |-> NoBuffer]
  /\ isListenerStarted = TRUE
  /\ shouldStopListener = FALSE
  /\ loops = [l \in LoopIds |->
                IF l = 1 THEN [NoLoop EXCEPT !.pc = "subscribing"] ELSE NoLoop]
  /\ streamTasks = [t \in StreamTaskIds |-> NoStreamTask]
  /\ streamNextSession = 1
  /\ nextPlatformId = 1
  /\ now = StartTime
  /\ budget = KeepsFailing
  /\ lastLen = [m \in Msgs |-> 0]
  /\ lastFragment = NoFragment
  /\ idsReturned = [m \in Msgs |-> 0]
  /\ goneSessions = {}
  /\ inFlight = [l \in LoopIds |-> 0]

BackoffNext ==
  \/ \E l \in LoopIds : SubscribeOk(l) /\ StreamOnly
  \/ \E l \in LoopIds : SubscribeFail(l) /\ StreamOnly
  \/ \E l \in LoopIds : BackoffFires(l) /\ StreamOnly
  \/ \E l \in LoopIds : StreamFails(l) /\ StreamOnly

InitBackoff == BackoffInit /\ HandlerIdle /\ DedupIdle /\ TokenIdle /\ BootInit /\ TeamsIdle
SpecBackoff == InitBackoff /\ [][BackoffNext]_vars

\* the bootstraps of the plugin entries and the listener they start
InitBoot == BootInit /\ BootStreamInit /\ HandlerIdle /\ DedupIdle /\ TokenIdle /\ TeamsIdle
SpecBoot == InitBoot /\ [][BootNext]_vars

\* the poll loops of the Teams clients, their callers and the chat they poll
InitTeams == TeamsInit /\ HandlerIdle /\ DedupIdle /\ StreamIdle /\ TokenIdle /\ BootInit
SpecTeams == InitTeams /\ [][TeamsNext]_vars

\* the token handling and the poll loop of the Teams client
InitToken == TokenInit /\ HandlerIdle /\ DedupIdle /\ StreamIdle /\ BootInit /\ TeamsIdle
SpecToken == InitToken /\ [][TokenNext]_vars
SpecStream == InitStream /\ [][StreamNext]_vars

\* every step a started task can take
TaskStep(t) ==
  \/ \E out \in {"id", "null", "throw"} : AfterAddReaction(t, out)
  \/ \E found \in SessIds \cup {NoSession} : AfterList(t, found)
  \/ AfterCreateOk(t)
  \/ AfterCreateFail(t)
  \/ \E out \in {"ok", "404", "error"} : AfterPrompt(t, out)
  \/ \E out \in {"pending", "completed", "error"} : AfterPoll(t, out)
  \/ \E out \in {"ok", "throw"} : AfterSend(t, out)
  \/ \E out \in {"ok", "throw"} : AfterErrSend(t, out)
  \/ \E out \in {"ok", "throw"} : AfterRemoveReaction(t, out)

SameChat(a, b) == tasks[a].chat = tasks[b].chat
Started(t) == tasks[t].pc # "waiting"

\* ------------------------------------------------------------------ claims

\* C1: for every conversation, at most one task is executing its body at any
\* instant: a task of a later message has left its wait only when the task of
\* every earlier message of the same conversation has settled.
C1_OneTaskInBody ==
  \A a, b \in TaskIds :
    (a < b /\ SameChat(a, b)) =>
      /\ ~(InBody(a) /\ InBody(b))
      /\ Started(b) => Settled(a)

\* C1 witness: the second task of a conversation is in its polling loop, the
\* first one has resolved.
C1_Witness ==
  \E a, b \in TaskIds :
    a < b /\ SameChat(a, b) /\ tasks[a].pc = "resolved" /\ tasks[b].pc = "poll"

\* C2: FIFO start order: in the step in which the body of a task starts, the
\* body of every task handed over earlier for the same conversation has
\* already started.
C2_FifoStart ==
  [][\A b \in TaskIds :
       (tasks[b].pc = "waiting" /\ tasks'[b].pc # "waiting") =>
         \A a \in TaskIds : (a < b /\ SameChat(a, b)) => Started(a)]_vars

\* C2 witness: three messages of one conversation, the third body running
\* after the first two have settled.
C2_Witness ==
  /\ Len(tasks) = 3
  /\ \A t \in TaskIds : tasks[t].chat = "A"
  /\ Settled(1) /\ Settled(2) /\ InBody(3)

\* C3: a rejected task does not stop or fail its successor: a waiting task
\* whose predecessor has rejected can start, a task leaves its wait only into
\* its body, and a task rejects only out of its own catch or finally block.
C3_RejectionSwallowed ==
  /\ [](\A t \in TaskIds :
          (tasks[t].pc = "waiting" /\ PromiseState(tasks[t].prev) = "rejected")
            => ENABLED StartBody(t))
  /\ [][\A t \in TaskIds :
          /\ tasks[t].pc = "waiting" => tasks'[t].pc \in {"waiting", "addReaction"}
          /\ (tasks[t].pc # "rejected" /\ tasks'[t].pc = "rejected")
               => tasks[t].pc \in {"errSend", "removeReaction"}]_vars

\* C3 witness: the first task of a conversation rejected, the next resolved.
C3_Witness ==
  \E a, b \in TaskIds :
    /\ tasks[b].prev = a
    /\ tasks[a].pc = "rejected"
    /\ tasks[b].pc = "resolved"

\* C4: tasks of different conversations never wait for each other: a task
\* waits only for a task of its own conversation, it can start as soon as all
\* earlier tasks of its own conversation have settled, whatever the tasks of
\* other conversations are doing, and once started it can always go on.
C4_ChatsIndependent ==
  \A t \in TaskIds :
    /\ tasks[t].prev # NoTask => SameChat(tasks[t].prev, t)
    /\ (tasks[t].pc = "waiting"
          /\ \A a \in TaskIds : (a < t /\ SameChat(a, t)) => Settled(a))
         => ENABLED StartBody(t)
    /\ InBody(t) => ENABLED TaskStep(t)

\* C4 witness: a task of one conversation is deep in its polling loop while a
\* task handed over later for another conversation has already settled.
C4_Witness ==
  \E a, b \in TaskIds :
    /\ a < b /\ ~SameChat(a, b)
    /\ tasks[a].pc = "poll" /\ tasks[a].attempts >= 2
    /\ Settled(b)

\* sessions a conversation's prompts went to
PromptedSessions(c) ==
  {promptLog[c][i] : i \in 1..Len(promptLog[c])} \ {Invalidated}
Invalidations(c) ==
  Cardinality({i \in 1..Len(promptLog[c]) : promptLog[c][i] = Invalidated})
CreatesInFlight(c) ==
  {t \in TaskIds : tasks[t].chat = c /\ tasks[t].pc = "create"}
FailedCreates(c) == createCalls[c] - createOk[c] - Cardinality(CreatesInFlight(c))

\* C5 as stated: when a session was created for a conversation and no
\* createSession call failed, createSession was called exactly once and all
\* the prompts of the conversation went to one session.
C5_CreatedExactlyOnce ==
  \A c \in Chats :
    (createOk[c] >= 1 /\ FailedCreates(c) = 0) =>
      /\ createCalls[c] = 1
      /\ Cardinality(PromptedSessions(c)) = 1

\* C5 amended: as stated as long as no prompt of the conversation has failed
\* with 404 and removed the binding; in general createSession calls of a
\* conversation never overlap and are issued only while it is unbound, at
\* most one more call than bindings removed has returned a session, and all
\* prompts between two removals of the binding go to one session.
C5_OneSessionPerBinding ==
  \A c \in Chats :
    /\ (createOk[c] >= 1 /\ FailedCreates(c) = 0 /\ Invalidations(c) = 0) =>
         (createCalls[c] = 1 /\ Cardinality(PromptedSessions(c)) = 1)
    /\ Cardinality(CreatesInFlight(c)) <= 1
    /\ CreatesInFlight(c) # {} => sessionMap[c] = NoSession
    /\ createOk[c] <= Invalidations(c) + 1
    /\ \A i \in 1..Len(promptLog[c]) :
         (i > 1 /\ promptLog[c][i] # Invalidated /\ promptLog[c][i-1] # Invalidated)
           => promptLog[c][i] = promptLog[c][i-1]

\* C5 witness: two messages of a conversation that had no binding were
\* prompted into the one session a single createSession call created.
C5_Witness ==
  \E c \in Chats :
    /\ createCalls[c] = 1 /\ createOk[c] = 1
    /\ Len(promptLog[c]) >= 2
    /\ Invalidations(c) = 0
    /\ Cardinality(PromptedSessions(c)) = 1

\* the isMessageProcessed call made by the step just taken
LastCallId == dedupLog'[Len(dedupLog')][1]
LastCallResult == dedupLog'[Len(dedupLog')][2]

\* C6: the dedup check returns true exactly when the id is already in the
\* set, and then leaves the set unchanged; it returns false when the id is
\* absent, and then the id is in the set; so a check of the id checked just
\* before returns true.
C6_SeenContract ==
  [][/\ LastCallResult = SetHas(processedMessageIds, LastCallId)
     /\ LastCallResult => processedMessageIds' = processedMessageIds
     /\ ~LastCallResult => SetHas(processedMessageIds', LastCallId)
     /\ (dedupLog # <<>> /\ dedupLog[Len(dedupLog)][1] = LastCallId)
          => LastCallResult]_vars

\* C6 witness: two consecutive checks of a new id returned false, then true.
C6_Witness ==
  /\ Len(dedupLog) = 2
  /\ dedupLog[1] = <<CacheCeiling, FALSE>>
  /\ dedupLog[2] = <<CacheCeiling, TRUE>>

\* C7: the set never holds more than the ceiling; an insert into a full set
\* evicts exactly the oldest-inserted id and the new id becomes the newest,
\* any other insert only appends, and a check that returns true changes
\* neither the ids nor their order.
C7_BoundedOldestEvicted ==
  /\ [](Len(processedMessageIds) <= CacheCeiling)
  /\ [][processedMessageIds' =
          IF LastCallResult THEN processedMessageIds
          ELSE IF Len(processedMessageIds) = CacheCeiling
                 THEN Append(Tail(processedMessageIds), LastCallId)
                 ELSE Append(processedMessageIds, LastCallId)]_vars

\* C7 witness: the set is full, its oldest id 1 has been evicted by the
\* insert of the newest one, and id 2 is now the next to go.
C7_Witness ==
  /\ Len(processedMessageIds) = CacheCeiling
  /\ ~SetHas(processedMessageIds, 1)
  /\ SetFirst(processedMessageIds) = 2
  /\ SetLast(processedMessageIds) = CacheCeiling + 1

\* C8: while an id stays in the processed-id set, onMessage has been invoked
\* for it at most once since it entered the set, however often it is
\* delivered.
C8_HandledAtMostOnce ==
  \A x \in DedupIds :
    SetHas(processedMessageIds, x) => onMessageCalls[x] <= 1

\* C8 witness: an id was handed to onMessage once and its redelivery was
\* dropped as a duplicate.
C8_Witness ==
  \E x \in DedupIds :
    /\ dedupLog = <<<<x, FALSE>>, <<x, TRUE>>>>
    /\ onMessageCalls[x] = 1

\* the content held for a message id ("" when no buffer exists)
FullContent(m) == IF messageBuffers[m].present THEN messageBuffers[m].fullContent ELSE ""

\* a message.part.updated event that reaches the aggregation of handleStreamUpdate
Aggregates(e) ==
  /\ e.sessionID # NoSession
  /\ sessionToFeishuMap[e.sessionID] # "none"
  /\ e.type \in {"text", "reasoning"}
  /\ e.messageID # Undefined

C10_LengthNeverDecreases ==
  [][\A m \in Msgs : lastLen'[m] >= lastLen[m]]_vars

\* C10: for every message id m the length of the accumulated content held
\* for m never decreases while the buffer of m exists; the length after a
\* fragment update is below the length after the previous one only when the
\* buffer of m was discarded in between, and only stopGlobalEventListener
\* discards a buffer.
C10_LengthGrowsUntilStopped ==
  /\ [](\A m \in Msgs :
          messageBuffers[m].present => lastLen[m] = Len(messageBuffers[m].fullContent))
  /\ [][\A m \in Msgs :
          /\ (messageBuffers[m].present /\ messageBuffers'[m].present)
               => Len(messageBuffers'[m].fullContent) >= Len(messageBuffers[m].fullContent)
          /\ lastLen'[m] < lastLen[m] => ~messageBuffers[m].present
          /\ (messageBuffers[m].present /\ ~messageBuffers'[m].present)
               => (shouldStopListener' /\ ~isListenerStarted'
                   /\ budget'.stops < budget.stops)]_vars

\* a snapshot shorter than the content arrived after two deltas and the
\* length stayed at 6, while the other id grew on its own
C10_Witness ==
  /\ lastFragment = [msg |-> "m1", delta |-> Undefined, text |-> "Hey"]
  /\ FullContent("m1") = "Hello "
  /\ lastLen["m1"] = 6
  /\ lastLen["m2"] = 3

\* the buffer handleStreamUpdate works on for a message id
BufferOf(m) == IF messageBuffers[m].present THEN messageBuffers[m] ELSE NewBuffer("text")

\* a fragment of event e was aggregated by loop l in this step
Handled(l, e) ==
  /\ budget'.events < budget.events
  /\ lastFragment' = [msg |-> e.messageID, delta |-> e.delta, text |-> e.text]
  /\ Aggregates(e)
  /\ PartUpdated(l, e)

\* loop l called feishu.sendMessage or feishu.editMessage in this step
Flushes(l) == loops[l].pc = "streaming" /\ loops'[l].pc = "sending"

\* C11: on a fragment for message id m that leaves non-empty content, a flush
\* (send or edit) is performed if and only if no platform message id is
\* recorded for m or at least 800 ms have passed since the last flush for m;
\* exactly 800 ms counts as due.
C11_FlushIffDue ==
  [][\A l \in LoopIds, e \in PartEvents :
       (Handled(l, e) /\ messageBuffers'[e.messageID].fullContent # "") =>
         (Flushes(l) <=>
            \/ BufferOf(e.messageID).feishuMsgId = NoPlatformId
            \/ now - BufferOf(e.messageID).lastUpdateTime >= UPDATE_INTERVAL)]_vars

\* C12: after a flush for message id m at time t, fragments for m that
\* arrive inside the 800 ms window after t cause no edit call at all (so at
\* most one), whatever their number: an edit call is made only more than
\* 800 ms after the previous flush for m, and each flush restarts the window;
\* a fragment that arrives 900 ms or more after the last flush is flushed in
\* the same step.
C12_EditsThrottled ==
  [][\A l \in LoopIds, e \in PartEvents :
       Handled(l, e) =>
         LET old == BufferOf(e.messageID)
             new == messageBuffers'[e.messageID]
         IN  /\ (Flushes(l) /\ loops'[l].op = "edit")
                  => now - old.lastUpdateTime > UPDATE_INTERVAL
             /\ (old.feishuMsgId # NoPlatformId
                 /\ now - old.lastUpdateTime <= UPDATE_INTERVAL) => ~Flushes(l)
             /\ Flushes(l) => (new.lastUpdateTime = now /\ loops'[l].msg = e.messageID)
             /\ ~Flushes(l) => new.lastUpdateTime = old.lastUpdateTime
             /\ (messageBuffers[e.messageID].present /\ old.lastUpdateTime > 0
                 /\ now - old.lastUpdateTime >= 900) => Flushes(l)]_vars

\* a first fragment was sent at the start, a second one arrived 10 ms later
\* and was held back, and a third one, 910 ms after the send, is being edited in
C12_Witness ==
  /\ now = StartTime + 910
  /\ budget.events = 0
  /\ lastLen["m1"] = 11
  /\ lastLen["m2"] = 0
  /\ loops[1].pc = "sending"
  /\ loops[1].op = "edit"
  /\ messageBuffers["m1"].lastUpdateTime = now

\* loop l has a send for message id m in flight
SendInFlight(l, m) ==
  loops[l].pc = "sending" /\ loops[l].op = "send" /\ loops[l].msg = m

\* C13 as stated: a flush sends while no platform id is recorded for m and
\* records the id the send returns; once an id is recorded every later flush
\* for m is an edit against that id and no further send is made, so at most
\* one send for m ever returns a platform message id.
C13_OneSendPerMessage ==
  /\ [](\A m \in Msgs : idsReturned[m] <= 1)
  /\ [][\A m \in Msgs :
          messageBuffers[m].feishuMsgId # NoPlatformId
            => messageBuffers'[m].feishuMsgId = messageBuffers[m].feishuMsgId]_vars

\* C13: a flush for m is a send exactly when no platform id is recorded for m
\* at that moment, and otherwise an edit against the id recorded at that
\* moment; a send that returns an id records it in the buffer it started from;
\* the id recorded for m changes only when stopGlobalEventListener discards the
\* buffers or when a send for m that is already in flight returns an id.
C13_SendUntilIdRecorded ==
  /\ [][\A l \in LoopIds :
          Flushes(l) =>
            LET old == BufferOf(loops'[l].msg)
            IN  /\ loops'[l].op = "send" <=> old.feishuMsgId = NoPlatformId
                /\ loops'[l].op = "edit" <=> old.feishuMsgId # NoPlatformId
                /\ loops'[l].op = "edit" => loops'[l].target = old.feishuMsgId]_vars
  /\ [][\A l \in LoopIds, m \in Msgs :
          (SendInFlight(l, m) /\ loops'[l].pc = "streaming"
           /\ idsReturned'[m] > idsReturned[m])
            => /\ nextPlatformId' = nextPlatformId + 1
               /\ ~loops[l].detached
                    => /\ messageBuffers[m].present
                       /\ messageBuffers'[m].feishuMsgId = nextPlatformId]_vars
  /\ [][\A m \in Msgs :
          messageBuffers'[m].feishuMsgId # messageBuffers[m].feishuMsgId
            => \/ /\ shouldStopListener' /\ budget'.stops < budget.stops
                  /\ ~messageBuffers'[m].present
               \/ \E l \in LoopIds :
                    /\ SendInFlight(l, m)
                    /\ loops'[l].pc = "streaming"
                    /\ idsReturned'[m] = idsReturned[m] + 1]_vars

\* the send for m1 returned id 1, and 801 ms later an edit against id 1 is
\* in flight
C13_Witness ==
  /\ messageBuffers["m1"].feishuMsgId = 1
  /\ idsReturned["m1"] = 1
  /\ loops[1].pc = "sending"
  /\ loops[1].op = "edit"
  /\ loops[1].msg = "m1"
  /\ loops[1].target = 1
  /\ now = StartTime + 801

\* session s is the only session the event-stream handler has created, so
\* every buffer that exists holds fragments of s
OnlySession(s) == s = 1 /\ streamNextSession = 2

\* C14: when the listener handles session.deleted or session.error for a
\* session, the buffer of every message id of that session is discarded, and
\* no flush is made afterwards for a fragment of that session.
C14_StateDiscardedOnSessionEnd ==
  /\ [][\A l \in LoopIds, s \in SessIds :
          (OnlySession(s) /\ SessionGone(l, s))
            => \A m \in Msgs : ~messageBuffers'[m].present]_vars
  /\ [][\A l \in LoopIds, e \in PartEvents :
          (Handled(l, e) /\ Flushes(l)) => e.sessionID \notin goneSessions]_vars

\* ------------------------------------------------------- C15
\* C15: for every conversation, two consecutive session resolutions with no
\* removal of the binding in between yield the same session id, and the first
\* resolution after the binding was removed yields a session id different
\* from the one the removed binding held.
C15_SameUntilInvalidatedThenFresh ==
  \A c \in Chats : \A i \in 2..Len(promptLog[c]) :
    /\ (promptLog[c][i] # Invalidated /\ promptLog[c][i-1] # Invalidated)
         => promptLog[c][i] = promptLog[c][i-1]
    /\ (i >= 3 /\ promptLog[c][i-1] = Invalidated /\ promptLog[c][i] # Invalidated)
         => promptLog[c][i] # promptLog[c][i-2]

\* ------------------------------------------------------- C16
\* C16: once the listener has handled session.deleted or session.error for a
\* session bound to a conversation, the conversation is no longer bound to
\* that session, and the next inbound message of the conversation calls
\* createSession instead of prompting the session again.
C16_BindingDroppedOnSessionGone ==
  /\ [][\A l \in LoopIds, s \in SessIds :
          SessionGone(l, s) => \A c \in StreamChats : sessionCache'[c] # s]_vars
  /\ [][\A c \in StreamChats :
          StreamHandle(c) =>
            \A t \in StreamTaskIds :
              (streamTasks[t].pc = "none" /\ streamTasks'[t].pc = "prompt")
                => streamTasks'[t].sessionId \notin goneSessions]_vars

\* ------------------------------------------------------- C17
\* the last entry of a conversation's prompt history is a removal of the
\* binding: no session has been resolved for it since
BindingRemoved(c) ==
  Len(promptLog[c]) > 0 /\ promptLog[c][Len(promptLog[c])] = Invalidated

\* C17: when promptSession fails with 404 for the session bound to a
\* conversation, the binding is removed and the task makes exactly one send,
\* the error notice, before it settles; the next message of the conversation
\* finds no binding and resolves a session anew instead of prompting from the
\* removed binding.
C17_NotFoundRemovesBinding ==
  /\ [][\A t \in TaskIds :
          AfterPrompt(t, "404") =>
            /\ sessionMap'[tasks[t].chat] = NoSession
            /\ tasks[t].sent = <<>> /\ tasks'[t].sent = <<"error">>]_vars
  /\ [][\A t \in TaskIds :
          (tasks[t].pc \in {"errSend", "removeReaction"} /\ ~Settled(t)' )
            => tasks'[t].sent = tasks[t].sent]_vars
  /\ [][\A t \in TaskIds, out \in {"id", "null"} :
          (BindingRemoved(tasks[t].chat) /\ AfterAddReaction(t, out))
            => /\ tasks'[t].pc = "list"
               /\ UNCHANGED promptLog]_vars

\* C17 witness: a prompt of a conversation failed with 404, its task has
\* settled after the one notice, and the next message of the conversation is
\* looking a session up again.
C17_Witness ==
  \E a, b \in TaskIds :
    /\ a < b /\ SameChat(a, b)
    /\ Settled(a)
    /\ BindingRemoved(tasks[b].chat)
    /\ sessionMap[tasks[b].chat] = NoSession
    /\ tasks[b].pc = "list"

\* ------------------------------------------------------- C18
\* the step in which createSession, promptSession or the polling of a task
\* fails: the task enters its catch block
FailsInTry(t) ==
  tasks[t].pc \in {"create", "prompt", "poll"} /\ tasks'[t].pc = "errSend"

\* the task is in its catch block or in the finally block after it
Failing(t) == tasks[t].pc \in {"errSend", "removeReaction"}

\* C18: when session creation, prompt submission or response polling of a
\* task fails, the task makes exactly one send, the error message, to its
\* own conversation; it does not call createSession again; it goes on to
\* settle, and once it has settled the next task of the conversation can
\* start.
C18_OneDiagnosticNoRetry ==
  /\ [][\A t \in TaskIds :
          FailsInTry(t) =>
            /\ tasks[t].sent = <<>> /\ tasks'[t].sent = <<"error">>
            /\ tasks'[t].chat = tasks[t].chat]_vars
  /\ [][\A t \in TaskIds :
          Failing(t) =>
            /\ tasks'[t].pc \in {tasks[t].pc, "removeReaction", "resolved", "rejected"}
            /\ ~Settled(t)' => tasks'[t].sent = tasks[t].sent
            /\ createCalls'[tasks[t].chat] = createCalls[tasks[t].chat]]_vars
  /\ [][\A t \in TaskIds :
          (tasks[t].pc # "create" /\ tasks'[t].pc = "create") => tasks[t].pc = "list"]_vars
  /\ [][\A t \in TaskIds :
          (tasks[t].pc # "list" /\ tasks'[t].pc = "list") => tasks[t].pc = "addReaction"]_vars
  /\ [](\A t \in TaskIds :
          /\ tasks[t].pc = "errSend" => ENABLED AfterErrSend(t, "ok")
          /\ tasks[t].pc = "removeReaction" => ENABLED AfterRemoveReaction(t, "ok")
          /\ (tasks[t].pc = "waiting" /\ PromiseState(tasks[t].prev) # "pending")
               => ENABLED StartBody(t))

\* C18 witness: the first task of a conversation failed in createSession,
\* sent its one error message and settled, and the next task of the
\* conversation is running.
C18_Witness ==
  \E a, b \in TaskIds :
    /\ tasks[b].prev = a
    /\ Settled(a)
    /\ createCalls[tasks[a].chat] = 1 /\ createOk[tasks[a].chat] = 0
    /\ tasks[b].pc = "list"

\* ------------------------------------------------------- C19
\* the task has left its polling loop with the timeout message
TimedOut(t) == tasks[t].pc = "send" /\ tasks[t].sent = <<"timeout">>

\* C19: a task whose polls never show a completed reply makes at most
\* maxAttempts polling attempts: the attempt counter goes up by one per poll
\* and never passes maxAttempts, the poll that comes back without a completed
\* reply at attempt maxAttempts ends the loop with the timeout message as the
\* task's only send, no task sends the timeout message before attempt
\* maxAttempts, and from there the task goes on to settle, after which the
\* next task of the conversation can start.
C19_PollingStopsAtBound ==
  /\ [](\A t \in TaskIds : tasks[t].attempts <= maxAttempts)
  /\ [][\A t \in TaskIds :
          /\ (tasks[t].pc = "poll" /\ tasks'[t].pc = "poll")
               => tasks'[t].attempts \in {tasks[t].attempts, tasks[t].attempts + 1}
          /\ (tasks[t].attempts = maxAttempts /\ AfterPoll(t, "pending"))
               => TimedOut(t)'
          /\ (~TimedOut(t) /\ TimedOut(t)')
               => tasks[t].pc = "poll" /\ tasks[t].attempts = maxAttempts
          /\ TimedOut(t)
               => /\ tasks'[t].pc \in {"send", "errSend", "removeReaction",
                                       "resolved", "rejected"}
                  /\ ~Settled(t)'
                       => tasks'[t].sent \in {tasks[t].sent,
                                              Append(tasks[t].sent, "error")}]_vars
  /\ [](\A t \in TaskIds :
          /\ TimedOut(t) => ENABLED AfterSend(t, "ok")
          /\ (tasks[t].pc = "waiting" /\ Settled(tasks[t].prev))
               => ENABLED StartBody(t))

\* C19 witness: sixty polls of the first task have come back without a
\* completed reply, the task is sending the timeout message, and the next
\* message of the conversation is still queued behind it.
C19_Witness ==
  /\ TimedOut(1)
  /\ pendingLeft = 1
  /\ tasks[2].pc = "waiting" /\ tasks[2].prev = 1

\* ------------------------------------------------------- C20
\* the texts that are "ping" once trimmed and lower-cased
PingTexts == {text \in Texts : ToLowerCase(Trim(text)) = Ping}

\* a message with the given text is handed to the handler
Arrives(c, s, text) ==
  /\ toArrive' < toArrive
  /\ HandlePing(c, text) \/ HandleMessage(c, s, text)

\* C20: a message whose trimmed, lower-cased text is "ping" is answered with
\* exactly one "Pong!" to its own conversation in the step that hands it
\* over, whatever tasks are queued; no task is created for it, the queue and
\* the session bindings stay as they are, and no session is created and no
\* prompt submitted.
C20_PingFastPath ==
  /\ [][\A c \in Chats, s \in Senders, text \in PingTexts :
          Arrives(c, s, text) =>
            /\ pongs' = [pongs EXCEPT ![c] = @ + 1]
            /\ UNCHANGED <<tasks, chatQueues, sessionMap, sessionOwnerMap,
                           backendTitle, nextSession, createCalls, createOk,
                           promptLog>>]_vars
  /\ [][\A c \in Chats : pongs'[c] # pongs[c] =>
          \E text \in PingTexts : HandlePing(c, text)]_vars
  /\ [](toArrive > 0 =>
          \A c \in Chats, text \in PingTexts : ENABLED HandlePing(c, text))

\* C20 witness: a ping of conversation A was answered while one task of A is
\* polling and another is queued behind it.
C20_Witness ==
  /\ pongs["A"] = 1
  /\ \E a, b \in TaskIds :
       /\ tasks[a].chat = "A" /\ tasks[a].pc = "poll"
       /\ tasks[b].prev = a /\ tasks[b].pc = "waiting"

\* ------------------------------------------------------- C21
\* C21: while a refresh of the token is in flight, callers of ensureValidToken
\* wait for it and issue no refresh call of their own: at most one POST to
\* the token endpoint is in flight at any time.
C21_OneRefreshInFlight == Cardinality(Refreshing) <= 1

\* ------------------------------------------------------- C22
\* the token is Fresh: set, and more than the safety margin before its expiry
Fresh == accessToken # NoToken /\ tokenExpiresAt - tokenNow > SafetyMargin

\* C22: the access token, the refresh token and the expiry change only in
\* the step in which a refresh call returns successfully, and in that step
\* all three are recorded together: the access token of the response, its
\* refresh token when it carries one and the old one otherwise, and the
\* current time plus the reported lifetime (3600 s when none is reported);
\* the token becomes Fresh in no other step.
C22_RefreshRecordsAtomically ==
  [][/\ (accessToken' # accessToken \/ refreshToken' # refreshToken
           \/ tokenExpiresAt' # tokenExpiresAt)
          => \E r \in Refreshing, res \in TokenResponses :
               /\ requests'[r].pc = "sent"
               /\ accessToken' = res.access_token
               /\ refreshToken' = IF res.refresh_token # NoToken
                                    THEN res.refresh_token ELSE refreshToken
               /\ tokenExpiresAt' =
                    tokenNow + 1000 * (IF res.expires_in # 0 THEN res.expires_in
                                                             ELSE DefaultExpiresIn)
     /\ (~Fresh /\ Fresh')
          => (tokenExpiresAt' # tokenExpiresAt /\ accessToken' # accessToken)
     /\ \A r \in Refreshing :
          requests'[r].pc = "sent" => accessToken' = requests'[r].token]_vars

\* C22 witness: a refresh has succeeded without a new refresh token: the
\* token is Fresh, the refresh token is still the configured one.
C22_Witness ==
  /\ Fresh
  /\ accessToken > ConfiguredToken
  /\ refreshToken = ConfiguredToken
  /\ tokenExpiresAt = tokenNow + DefaultExpiresIn * 1000

\* ------------------------------------------------------- C23
\* no refresh credential is configured: the refresh token or the client id
\* is missing
NoRefreshCredential == config.refresh_token = NoToken \/ ~config.client_id

\* C23: without a refresh credential no refresh call is ever issued and the
\* credential state stays as configured; a request goes out with the
\* configured access token when there is one, however old, and fails with
\* the no-access-token error when there is none.
C23_NoCredentialNoRefresh ==
  NoRefreshCredential =>
    /\ refreshCalls = 0
    /\ accessToken = config.access_token
    /\ refreshToken = config.refresh_token
    /\ tokenExpiresAt = 0
    /\ \A r \in ReqIds :
         /\ requests[r].pc # "refreshing"
         /\ requests[r].pc = "sent"
              => (config.access_token # NoToken /\ requests[r].token = config.access_token)
         /\ requests[r].pc = "failed"
              => (config.access_token = NoToken /\ requests[r].err = "NoAccessToken")

\* C23 witness: with an access token but no refresh credential configured,
\* two requests have gone out with the configured token after time has
\* passed.
C23_Witness ==
  /\ NoRefreshCredential
  /\ config.access_token # NoToken
  /\ tokenNow > StartTime + SafetyMargin
  /\ Cardinality({r \in ReqIds : requests[r].pc = "sent"}) = 2

\* ------------------------------------------------------- C24
\* a request enters the interceptor in this step
Starts(r) == requests[r].pc = "none" /\ requests'[r].pc # "none"

\* C24: a request that finds the token Fresh (set, and strictly more than
\* 60 s before the recorded expiry) issues no refresh call and goes out with
\* it; a request that finds it Stale (60 s or less left, or no expiry
\* recorded) issues a refresh call when a refresh credential exists; so with
\* a refresh credential, no refresh call is issued exactly when the token is
\* Fresh.
C24_RefreshIffStale ==
  [][\A r \in ReqIds :
       Starts(r) =>
         /\ Fresh => (refreshCalls' = refreshCalls /\ requests'[r].pc = "sent")
         /\ (~Fresh /\ ~NoRefreshCredential)
              => (refreshCalls' = refreshCalls + 1 /\ requests'[r].pc = "refreshing")
         /\ (tokenExpiresAt = 0 /\ ~NoRefreshCredential) => requests'[r].pc = "refreshing"
         /\ ~NoRefreshCredential => (refreshCalls' = refreshCalls <=> Fresh)]_vars

\* C24 witness: the second request found the token of the first refresh 61 s
\* before its expiry and issued no refresh call.
C24_Witness ==
  /\ Fresh
  /\ tokenExpiresAt - tokenNow = SafetyMargin + 1000
  /\ refreshCalls = 1
  /\ tokenBudget.calls = MaxCalls - 2

\* ------------------------------------------------------- C25
PollKinds == {"baselineList", "baselineMessages", "listChats", "getMessages"}

\* the request of the poll loop fails in the interceptor: the refresh call
\* failed, or there is no access token
PollCallFails(r) ==
  /\ requests[r].kind \in PollKinds
  /\ requests[r].pc = "failed"
  /\ requests'[r].pc = "none"

\* the poll loop can make its next call
CanCall == tokenBudget.calls > 0 /\ FreeRequests # {}

\* C25: a request of the poll loop that fails because the token refresh
\* failed or no access token is there ends only that call: the other
\* requests and this.polling are left as they are and startPolling goes on
\* (to its loop after the baseline fetch, to its sleep inside the loop);
\* only stop() ends the polling; after the sleep the loop makes its next
\* call, and as long as the token is stale and a refresh credential exists
\* that call issues a refresh call again.
C25_PollingSurvivesTokenFailure ==
  /\ [][\A r \in ReqIds :
          PollCallFails(r) =>
            /\ pollPc' \in {"loop", "sleep"}
            /\ polling' = polling
            /\ \A q \in ReqIds \ {r} : requests'[q] = requests[q]]_vars
  /\ [][(pollPc # "off" /\ pollPc' = "off") => (pollPc \in {"loop", "sleep"} /\ ~polling)]_vars
  /\ [][(polling /\ ~polling') => UNCHANGED <<requests, pollPc>>]_vars
  /\ [][\A r \in ReqIds :
          (pollPc \in {"loop", "sleep"} /\ pollPc' = "calling" /\ Starts(r)
             /\ ~Fresh /\ ~NoRefreshCredential)
            => (requests'[r].pc = "refreshing" /\ refreshCalls' = refreshCalls + 1)]_vars
  /\ []((pollPc \in {"loop", "sleep"} /\ CanCall)
          => ENABLED PollWakes(Lowest(FreeRequests)))

\* C25 witness: the refresh call of the baseline listChats failed,
\* startPolling went on, and a listChats of its loop has issued a refresh
\* call again.
C25_Witness ==
  /\ polling /\ pollPc = "calling"
  /\ refreshCalls = 3 /\ issued = 0
  /\ tokenBudget.calls = 0
  /\ \E r \in ReqIds :
       /\ requests[r].kind = "listChats" /\ requests[r].pc = "refreshing"
       /\ \A q \in ReqIds \ {r} : requests[q].pc = "none"

\* ------------------------------------------------------- C26
\* the event stream of a connected loop is over in this step, by an error or
\* by its normal end
StreamOver(l) ==
  loops[l].pc = "streaming" /\ loops'[l].pc \notin {"streaming", "sending"}

\* C26: when the event stream of a connected loop ends, by an error or by
\* normal termination, and the listener has not been stopped, the loop is
\* Disconnected with its reconnect scheduled: a new subscribe attempt
\* follows.
C26_StreamEndReconnects ==
  [][\A l \in LoopIds :
       (StreamOver(l) /\ ~shouldStopListener) => loops'[l].pc = "backoff"]_vars

\* ------------------------------------------------------- C27
\* the smaller of two numbers
Min(a, b) == IF a <= b THEN a ELSE b

\* the connection of a loop fails in this step: subscribe throws, or the
\* stream does
ConnectionFails(l) ==
  loops[l].pc \in {"subscribing", "streaming"} /\ loops'[l].pc = "backoff"

\* C27: the failure counter of a loop counts its consecutive failures: it
\* goes up by one with each failure, is left alone by the timer and is set
\* to 0 when a subscribe succeeds; the delay scheduled by the failure that
\* finds the counter at k is min(5 s * (k + 1), 60 s), never more than 60 s.
C27_BackoffDelay ==
  /\ [][\A l \in LoopIds :
          /\ ConnectionFails(l) =>
               /\ loops'[l].delay = Min(5000 * (loops[l].retryCount + 1), 60000)
               /\ loops'[l].retryCount = loops[l].retryCount + 1
          /\ (loops[l].pc = "subscribing" /\ loops'[l].pc = "streaming")
               => loops'[l].retryCount = 0
          /\ (loops[l].pc = "backoff" /\ loops'[l].pc = "subscribing")
               => loops'[l].retryCount = loops[l].retryCount]_vars
  /\ [](\A l \in LoopIds : loops[l].delay <= 60000)

\* C27 witness: the thirteenth failure in a row (k = 12) has scheduled the
\* reconnect after 60 s, not 65 s.
C27_Witness ==
  \E l \in LoopIds :
    loops[l].pc = "backoff" /\ loops[l].retryCount = 13 /\ loops[l].delay = 60000

\* ------------------------------------------------------- C28
\* a loop calls api.event.subscribe() in this step
Subscribes(l) == loops[l].pc # "subscribing" /\ loops'[l].pc = "subscribing"

\* C28: while the listener is stopped no loop makes a subscribe attempt, a
\* loop whose backoff timer was scheduled before the stop included, and the
\* stop leaves the session routing table and the stream buffers empty.
C28_NoReconnectAfterStop ==
  [][/\ \A l \in LoopIds : shouldStopListener => ~Subscribes(l)
     /\ (~shouldStopListener /\ shouldStopListener')
          => /\ \A s \in SessIds : sessionToFeishuMap'[s] = "none"
             /\ \A m \in Msgs : ~messageBuffers'[m].present]_vars

\* the bootstraps that got past the registry lookup
PastLookup == {b \in BootIds : boots[b].mux # NoMux}

\* C29: whatever the number of bootstraps and the interleaving of their
\* steps, at most one adapter registry is ever constructed, it is the one
\* globalState holds, every bootstrap past the lookup holds that instance,
\* and every mux.register call is made on it.
C29_OneRegistryInstance ==
  /\ muxCreated <= 1
  /\ PastLookup # {} => muxCreated = 1 /\ bridgeMux = 1
  /\ \A b \in PastLookup : boots[b].mux = bridgeMux
  /\ \A c \in registerCalls : c[1] = bridgeMux

\* two bootstraps are between their register call and the return of
\* adapter.start at the same time, and both adapters are in the one registry
C29_Witness ==
  /\ \E b1, b2 \in BootIds :
       /\ b1 # b2
       /\ boots[b1].pc = "starting" /\ boots[b2].pc = "starting"
       /\ boots[b1].kind = "bridge" /\ boots[b2].kind = "teams"
  /\ registerCalls = {<<1, "lark">>, <<1, "teams">>}
  /\ muxCreated = 1

\* the connect() chains alive: subscribing, streaming or waiting to retry
LiveLoops == {l \in LoopIds : loops[l].pc # "none"}

\* C30: whatever the number of bootstraps and the interleaving of their
\* steps, with no stop of the listener, at most one event subscription loop
\* exists.
C30_ListenerStartedOnce == Cardinality(LiveLoops) <= 1

\* a BridgePlugin bootstrap and a FeishuBridgePlugin bootstrap, which test
\* different flags, have both called startGlobalEventListener, and one loop
\* is subscribed to the event stream
C30_Witness ==
  /\ startCalls >= 2
  /\ bridgeListenerStarted /\ feishuListenerStarted
  /\ Cardinality(LiveLoops) = 1
  /\ \E l \in LoopIds : loops[l].pc = "streaming"

\* a step in which loop l issues an outbound send or edit call
Issues(l) == inFlight'[l] > inFlight[l]

\* C31: a listener loop takes the next event of the stream only when the
\* handling of the previous one, with its outbound call, has completed: a
\* loop has at most one outbound call in flight, an event is taken by a loop
\* with no call in flight, and a call is issued in the step that handles the
\* fragment, for the message of that fragment and with the content
\* accumulated up to it.
C31_EventsHandledInStreamOrder ==
  /\ [](\A l \in LoopIds : inFlight[l] <= 1)
  /\ [][/\ budget'.events < budget.events =>
             \E l \in LoopIds : loops[l].pc = "streaming" /\ inFlight[l] = 0
        /\ \A l \in LoopIds :
             Issues(l) =>
               /\ inFlight[l] = 0
               /\ budget'.events < budget.events
               /\ loops'[l].msg = lastFragment'.msg
               /\ loops'[l].text = DisplayContent(messageBuffers'[loops'[l].msg])]_vars

\* the loop has an edit in flight that carries the content of three
\* fragments of one message, the first of which was sent and has returned
C31_Witness ==
  /\ loops[1].pc = "sending" /\ loops[1].op = "edit"
  /\ inFlight[1] = 1
  /\ loops[1].msg = "m1" /\ loops[1].text = "Hello world"
  /\ budget.events = 0

\* the refresh call of request r fails in this step
RefreshFails(r) == requests[r].pc = "refreshing" /\ requests'[r].pc = "failed"

\* C32: a failed refresh call leaves the access token, the refresh token and
\* the expiry timestamp as they were, and the request that asked for the
\* refresh fails with the refresh error without being sent.
C32_FailedRefreshChangesNothing ==
  [][\A r \in ReqIds :
       RefreshFails(r) =>
         /\ accessToken' = accessToken
         /\ refreshToken' = refreshToken
         /\ tokenExpiresAt' = tokenExpiresAt
         /\ requests'[r].err = "TokenRefreshFailed"
         /\ requests'[r].token = requests[r].token]_vars

\* a refresh has succeeded before, a later one has failed, and the rotated
\* credentials of the first are still in place
C32_Witness ==
  /\ \E r \in ReqIds : requests[r].pc = "failed" /\ requests[r].err = "TokenRefreshFailed"
  /\ issued > 0
  /\ accessToken = issued + 1
  /\ refreshToken # config.refresh_token

\* run p of startPolling begins a poll iteration in this step
BeginsIteration(p) == pollers'[p].pc = "listChats" /\ pollers[p].pc # "listChats"

\* C33: a run of startPolling on whose client stop() has been called begins
\* no further poll iteration, whatever is called on the client afterwards.
C33_StoppedLoopPollsNoMore ==
  [][\A p \in PollerIds : pollers[p].stopped => ~BeginsIteration(p)]_vars

\* the fragment of event e, handled in this step, is the last event of the
\* stream and changes the content accumulated for its message
LastFragment(l, e) ==
  /\ budget'.events = 0
  /\ Handled(l, e)
  /\ messageBuffers'[e.messageID].fullContent # FullContent(e.messageID)

\* C34: the only outbound calls are those handleStreamUpdate makes while it
\* handles a fragment, so the content the last fragment leaves reaches the
\* platform only if the handling of that fragment sends or edits with the
\* complete accumulated content (after the marker for a reasoning part).
C34_LastFragmentFlushed ==
  [][\A l \in LoopIds, e \in PartEvents :
       LastFragment(l, e) =>
         /\ Flushes(l)
         /\ loops'[l].text = DisplayContent(messageBuffers'[e.messageID])]_vars

PollingBegan(c) ==
  \E p \in PollerIds :
    /\ pollers[p].client = c /\ pollers[p].awaited
    /\ pollers[p].pc \in {"listChats", "getMessages", "onMessage", "sleep"}

\* C36: a bootstrap that awaits the start of its Teams adapter is not held
\* up by the poll loop: once polling has begun, the bootstrap can go on to
\* the step that starts the global event listener.
C36_StartDoesNotBlockBootstrap ==
  \A c \in ClientIds :
    (teamsBoot[c] = "awaitStart" /\ PollingBegan(c)) => ENABLED StartReturns(c)

\* the runs of the event-stream handler for conversation c that are at pc
StreamTasksAt(c, pc) ==
  {t \in StreamTaskIds : streamTasks[t].chat = c /\ streamTasks[t].pc = pc}

\* C37: in the event-stream handler, the messages of one conversation that
\* arrive before the first createSession call has returned lead to one
\* createSession call at most, and the prompts of the conversation that are
\* in flight together go to one session.
C37_OneSessionPerConversation ==
  \A c \in StreamChats :
    /\ Cardinality(StreamTasksAt(c, "create")) <= 1
    /\ \A t1, t2 \in StreamTasksAt(c, "prompt") :
         streamTasks[t1].sessionId = streamTasks[t2].sessionId

\* C38: the last-seen creation time a run of startPolling holds for the chat
\* never moves backwards from one step of the run to the next.
C38_LastSeenNeverMovesBack ==
  [][\A p \in PollerIds :
       (p \in ActivePollers /\ pollers'[p].pc # "none") =>
         pollers'[p].lastSeen >= pollers[p].lastSeen]_vars

\* run p of startPolling hands a message to onMessage in this step
Delivers(p) ==
  /\ Len(onMessageLog') > Len(onMessageLog)
  /\ onMessageLog'[Len(onMessageLog')][1] = p

\* C40: once a bootstrap has registered a new Teams adapter under the Teams
\* key, inbound messages are handed over by the poll loop of the registered
\* adapter only; the loop of a replaced adapter delivers nothing.
C40_OnlyRegisteredAdapterDelivers ==
  [][\A p \in PollerIds : Delivers(p) => pollers[p].client = teamsRegistry]_vars

\* the connect() runs that are in the for-await loop over events.stream
ConsumingLoops == {l \in LoopIds : loops[l].pc \in {"streaming", "sending"}}

\* C39: while the listener is started and the stop flag is clear, at most one
\* connect() run consumes events, also after a stop followed by a start.
C39_OneLoopAfterRestart ==
  (isListenerStarted /\ ~shouldStopListener) => Cardinality(ConsumingLoops) <= 1

====
